---- MODULE Spec2Model ----
(***************************************************************************)
(* A model of the JSON parsers of davimiku/json_parser.                    *)
(*                                                                         *)
(* A string is a sequence of characters; a character is a one-element     *)
(* name ("[", "1", " ", ...) and three characters outside ASCII are named  *)
(* by their code point.  A parser of the combinator engine is a closure    *)
(* in the source; here it is a record that describes the closure           *)
(* ([op |-> "pair", parser1 |-> ..., parser2 |-> ...]) and run applies it  *)
(* to an input.  The operator named after a combinator (pair, either, ...) *)
(* is the body of the closure the combinator returns.                      *)
(***************************************************************************)
EXTENDS Integers, Sequences, FiniteSets, TLC

VARIABLES input, memo, parser, result

vars == <<input, memo, parser, result>>

(***************************************************************************)
(* Bounds of the model.                                                    *)
(***************************************************************************)
\* longest input drawn exhaustively from Alphabet
MaxLen == 3
\* most items in a generated array text
MaxItems == 2
\* most key:value pairs in a generated object text
MaxPairs == 3
\* longest run of whitespace inserted next to a punctuation character
MaxWs == 1

(***************************************************************************)
(* Characters (char) and strings (&str).                                   *)
(***************************************************************************)
Digits == <<"0", "1", "2", "3", "4", "5", "6", "7", "8", "9">>

\* U+00A0 NO-BREAK SPACE, U+0663 ARABIC-INDIC DIGIT THREE, U+00E9 e acute
TwoByteChars == {"U+00A0", "U+0663", "U+00E9"}

\* char::len_utf8
len_utf8(c) == IF c \in TwoByteChars THEN 2 ELSE 1

\* char::is_whitespace (White_Space property)
is_whitespace(c) == c \in {" ", "\t", "\n", "\r", "U+00A0"}

\* char::is_ascii_digit
is_ascii_digit(c) == \E i \in 1..10 : Digits[i] = c

\* char::is_numeric (general categories Nd, Nl, No)
is_numeric(c) == is_ascii_digit(c) \/ c = "U+0663"

\* the value of an ASCII digit
digit_value(c) == (CHOOSE i \in 1..10 : Digits[i] = c) - 1

\* str::len: the length in bytes
RECURSIVE str_len(_)
str_len(s) == IF s = <<>> THEN 0 ELSE len_utf8(Head(s)) + str_len(Tail(s))

\* the characters from the k-th on (1-based): &s[byte offset of k ..]
DropChars(s, k) == SubSeq(s, k + 1, Len(s))

\* str::get(0..n): the prefix of n bytes, when n is within the string and on
\* a character boundary (a character is a byte or more, so the prefix has
\* n characters at most)
str_get_prefix(s, n) ==
    LET most == IF n < Len(s) THEN n ELSE Len(s)
        ks == {k \in 0..most : str_len(SubSeq(s, 1, k)) = n}
    IN  IF ks = {} THEN [some |-> FALSE, chars |-> 0]
        ELSE [some |-> TRUE, chars |-> CHOOSE k \in ks : TRUE]

IsSuffix(r, s) ==
    /\ Len(r) <= Len(s)
    /\ SubSeq(s, Len(s) - Len(r) + 1, Len(s)) = r

(***************************************************************************)
(* ParseResult.  Ok((rest, out)) and Err(rest) are the two values of the   *)
(* type; a panic (an unwrap of an Err) and a loop that never ends are the  *)
(* two ways a call does not return one.  jv and rec record the calls of    *)
(* the parser json_value() made during the call: jv holds the lengths of   *)
(* the inputs of the outermost ones, rec the pairs <<n, m>> of a call on   *)
(* n characters and a call on m characters made inside it.                 *)
(***************************************************************************)
Unit == <<>>

Ok(rest, out) ==
    [kind |-> "Ok", rest |-> rest, out |-> out, jv |-> {}, rec |-> {}]

Err(rest) ==
    [kind |-> "Err", rest |-> rest, out |-> Unit, jv |-> {}, rec |-> {}]

Panic ==
    [kind |-> "Panic", rest |-> <<>>, out |-> Unit, jv |-> {}, rec |-> {}]

Diverge ==
    [kind |-> "Diverge", rest |-> <<>>, out |-> Unit, jv |-> {}, rec |-> {}]

NoResult ==
    [kind |-> "None", rest |-> <<>>, out |-> Unit, jv |-> {}, rec |-> {}]

\* r, reached after the calls of r1
After(r1, r) == [r EXCEPT !.jv = r1.jv \cup @, !.rec = r1.rec \cup @]

(***************************************************************************)
(* Value (value.rs).  A u64 or an i64 is kept as its decimal digits        *)
(* without leading zeros, so that the 64-bit limits are the real ones.     *)
(***************************************************************************)
NumberValue_UInt(u) == [kind |-> "UInt", neg |-> FALSE, mag |-> u]

NumberValue_Int(i) == [kind |-> "Int", neg |-> i.neg, mag |-> i.mag]

Value_Null == [type |-> "Null", v |-> Unit]

Value_Bool(b) == [type |-> "Bool", v |-> b]

Value_String(s) == [type |-> "String", v |-> s]

Value_Number(n) == [type |-> "Number", v |-> n]

Value_Array(a) == [type |-> "Array", v |-> a]

Value_Object(m) == [type |-> "Object", v |-> m]

\* BTreeMap::new and BTreeMap::insert
BTreeMap_new == [k \in {} |-> Unit]

\* an insert that keeps the value a key already has (entry().or_insert())
BTreeMap_insert_keep(m, key, value) ==
    [k \in DOMAIN m \cup {key} |-> IF k \in DOMAIN m THEN m[k] ELSE value]

BTreeMap_insert(m, key, value) ==
    [k \in DOMAIN m \cup {key} |-> IF k = key THEN value ELSE m[k]]

\* for (key, value) in pairs { map.insert(key, value); }
RECURSIVE insert_all(_, _)
insert_all(m, pairs) ==
    IF pairs = <<>> THEN m
    ELSE insert_all(BTreeMap_insert(m, Head(pairs)[1], Head(pairs)[2]), Tail(pairs))

(***************************************************************************)
(* str::parse::<u64> and str::parse::<i64> on a string without a sign.     *)
(***************************************************************************)
ToChars(ds) == [i \in DOMAIN ds |-> Digits[ds[i] + 1]]

U64_MAX == ToChars(<<1, 8, 4, 4, 6, 7, 4, 4, 0, 7, 3, 7, 0, 9, 5, 5, 1, 6, 1, 5>>)

I64_MAX == ToChars(<<9, 2, 2, 3, 3, 7, 2, 0, 3, 6, 8, 5, 4, 7, 7, 5, 8, 0, 7>>)

RECURSIVE strip_zeros(_)
strip_zeros(ds) ==
    IF Len(ds) > 1 /\ Head(ds) = "0" THEN strip_zeros(Tail(ds)) ELSE ds

\* a <= b, for digit strings without leading zeros
digits_le(a, b) ==
    \/ Len(a) < Len(b)
    \/ /\ Len(a) = Len(b)
       /\ \/ a = b
          \/ \E i \in 1..Len(a) :
                /\ SubSeq(a, 1, i - 1) = SubSeq(b, 1, i - 1)
                /\ digit_value(a[i]) < digit_value(b[i])

from_str_radix_10(chars, max) ==
    IF chars = <<>> \/ \E i \in 1..Len(chars) : ~is_ascii_digit(chars[i])
    THEN [ok |-> FALSE, v |-> <<>>]
    ELSE IF digits_le(strip_zeros(chars), max)
         THEN [ok |-> TRUE, v |-> strip_zeros(chars)]
         ELSE [ok |-> FALSE, v |-> <<>>]

parse_u64(chars) == from_str_radix_10(chars, U64_MAX)

parse_i64(chars) ==
    LET r == from_str_radix_10(chars, I64_MAX)
    IN  [ok |-> r.ok, v |-> [neg |-> FALSE, mag |-> r.v]]

\* -i, for an i64 i >= 0
neg_i64(i) == [neg |-> i.mag # <<"0">>, mag |-> i.mag]

(***************************************************************************)
(* The parsers a combinator builds, as data.  A closure handed to map,     *)
(* pred or and_then is named by the function it is written in.             *)
(***************************************************************************)
P_any_char == [op |-> "any_char"]

P_match_literal(expected) == [op |-> "match_literal", expected |-> expected]

P_pair(parser1, parser2) ==
    [op |-> "pair", parser1 |-> parser1, parser2 |-> parser2]

P_map(p, f) == [op |-> "map", parser |-> p, map_fn |-> f]

P_and_then(p, f) == [op |-> "and_then", parser |-> p, f |-> f]

P_zero_or_one(p) == [op |-> "zero_or_one", parser |-> p]

P_zero_or_more(p) == [op |-> "zero_or_more", parser |-> p]

P_one_or_more(p) == [op |-> "one_or_more", parser |-> p]

P_pred(p, predicate) == [op |-> "pred", parser |-> p, predicate |-> predicate]

P_either(parser1, parser2) ==
    [op |-> "either", parser1 |-> parser1, parser2 |-> parser2]

\* the parser a call of json_value() returns
P_json_value(p) == [op |-> "json_value", parser |-> p]

\* common.rs: left and right
left(parser1, parser2) == P_map(P_pair(parser1, parser2), "left")

right(parser1, parser2) == P_map(P_pair(parser1, parser2), "right")

(***************************************************************************)
(* lexers.rs                                                               *)
(***************************************************************************)
\* quoted_string without the closing quote
quoted_string_unterminated ==
    P_map(right(P_match_literal(<<"\"">>),
                P_zero_or_more(P_pred(P_any_char, "not_quote"))),
          "quoted_string")

quoted_string ==
    P_map(right(P_match_literal(<<"\"">>),
                left(P_zero_or_more(P_pred(P_any_char, "not_quote")),
                     P_match_literal(<<"\"">>))),
          "quoted_string")

uint == P_map(P_one_or_more(P_pred(P_any_char, "is_numeric")), "uint")

int == P_and_then(P_match_literal(<<"-">>), "int")

int_closure == P_map(P_one_or_more(P_pred(P_any_char, "is_numeric")), "int")

whitespace_char == P_pred(P_any_char, "is_whitespace")

space1 == P_one_or_more(whitespace_char)

space0 == P_zero_or_more(whitespace_char)

trim(p) == right(space0, left(p, space0))

(***************************************************************************)
(* json.rs                                                                 *)
(***************************************************************************)
true_value == P_map(P_match_literal(<<"t", "r", "u", "e">>), "true_value")

false_value == P_map(P_match_literal(<<"f", "a", "l", "s", "e">>), "false_value")

bool_value == P_either(true_value, false_value)

null_value == P_map(P_match_literal(<<"n", "u", "l", "l">>), "null_value")

string_value == P_map(quoted_string, "string_value")

number_value ==
    P_either(P_map(int, "number_value_int"), P_map(uint, "number_value_uint"))

primitive_value ==
    P_either(bool_value, P_either(null_value, P_either(string_value, number_value)))

object_value == P_and_then(P_match_literal(<<"{">>), "object_value")

array_value == P_and_then(P_match_literal(<<"[">>), "array_value")

nonprimitive_value == P_either(object_value, array_value)

json_value == P_json_value(trim(P_either(primitive_value, nonprimitive_value)))

object_pair ==
    P_pair(trim(quoted_string), right(P_match_literal(<<":">>), json_value))

comma_preceded_object_pair == right(P_match_literal(<<",">>), object_pair)

object_value_closure ==
    P_map(left(P_pair(P_zero_or_one(object_pair),
                      P_zero_or_more(comma_preceded_object_pair)),
               P_match_literal(<<"}">>)),
          "object_value")

comma_preceded_value == right(P_match_literal(<<",">>), json_value)

\* the closure of array_value with a comma allowed before the bracket
array_value_closure_trailing ==
    P_map(left(P_pair(P_zero_or_one(json_value),
                      P_zero_or_more(comma_preceded_value)),
               right(P_zero_or_one(P_match_literal(<<",">>)),
                     P_match_literal(<<"]">>))),
          "array_value")

array_value_closure ==
    P_map(left(P_pair(P_zero_or_one(json_value),
                      P_zero_or_more(comma_preceded_value)),
               P_match_literal(<<"]">>)),
          "array_value")

(***************************************************************************)
(* The closures of the source, by name.                                    *)
(***************************************************************************)
\* the closure given to and_then in f; none of them reads its argument
and_then_closure(f, x) ==
    CASE f = "int" -> int_closure
      [] f = "object_value" -> object_value_closure
      [] f = "array_value" -> array_value_closure

\* the predicate given to pred
predicate_holds(predicate, c) ==
    CASE predicate = "not_quote" -> c # "\""
      [] predicate = "is_numeric" -> is_numeric(c)
      [] predicate = "is_whitespace" -> is_whitespace(c)

\* uint: chars.into_iter().collect::<String>().parse::<u64>().unwrap()
uint_map(chars) ==
    LET r == parse_u64(chars)
    IN  [panic |-> ~r.ok, v |-> r.v]

\* int: ....parse::<i64>().map(|i| -i).unwrap()
int_map(chars) ==
    LET r == parse_i64(chars)
    IN  [panic |-> ~r.ok, v |-> IF r.ok THEN neg_i64(r.v) ELSE r.v]

\* object_value: both lists inserted into one BTreeMap, v1 first
object_value_map(x) ==
    Value_Object(insert_all(insert_all(BTreeMap_new, x[1]), x[2]))

\* array_value: v1.append(&mut v2)
array_value_map(x) == Value_Array(x[1] \o x[2])

Returns(v) == [panic |-> FALSE, v |-> v]

\* the closure given to map
apply_map_fn(f, x) ==
    CASE f = "left" -> Returns(x[1])
      [] f = "right" -> Returns(x[2])
      [] f = "quoted_string" -> Returns(x)
      [] f = "uint" -> uint_map(x)
      [] f = "int" -> int_map(x)
      [] f = "true_value" -> Returns(Value_Bool(TRUE))
      [] f = "false_value" -> Returns(Value_Bool(FALSE))
      [] f = "null_value" -> Returns(Value_Null)
      [] f = "string_value" -> Returns(Value_String(x))
      [] f = "number_value_int" -> Returns(Value_Number(NumberValue_Int(x)))
      [] f = "number_value_uint" -> Returns(Value_Number(NumberValue_UInt(x)))
      [] f = "object_value" -> Returns(object_value_map(x))
      [] f = "array_value" -> Returns(array_value_map(x))

(***************************************************************************)
(* lexers.rs: the two parsers that read the input.                         *)
(***************************************************************************)
\* any_char that keeps the characters before the last one, not after the first
any_char_prefix(inp) ==
    IF inp # <<>> THEN Ok(SubSeq(inp, 1, Len(inp) - 1), Head(inp)) ELSE Err(inp)

\* any_char that does not advance
any_char_stuck(inp) ==
    IF inp # <<>> THEN Ok(inp, Head(inp)) ELSE Err(inp)

any_char(inp) ==
    IF inp # <<>> THEN Ok(DropChars(inp, 1), Head(inp)) ELSE Err(inp)

\* a match_literal that fails with the literal instead of the input
match_literal_err_expected(expected, inp) ==
    LET next == str_get_prefix(inp, str_len(expected))
    IN  IF next.some /\ SubSeq(inp, 1, next.chars) = expected
        THEN Ok(DropChars(inp, next.chars), Unit)
        ELSE Err(expected)

\* match_literal that slices without a check: &input[..expected.len()]
match_literal_sliced(expected, inp) ==
    LET next == str_get_prefix(inp, str_len(expected))
    IN  IF ~next.some THEN Panic
        ELSE IF SubSeq(inp, 1, next.chars) = expected
             THEN Ok(DropChars(inp, next.chars), Unit)
             ELSE Err(inp)

match_literal(expected, inp) ==
    LET next == str_get_prefix(inp, str_len(expected))
    IN  IF next.some /\ SubSeq(inp, 1, next.chars) = expected
        THEN Ok(DropChars(inp, next.chars), Unit)
        ELSE Err(inp)

(***************************************************************************)
(* common.rs: the closure each combinator returns, applied to inp.         *)
(* A parser is a pure function, so a call of json_value() on a text gives  *)
(* what an earlier call on that text gave: known maps the texts on which   *)
(* json_value() has been evaluated to its results, and a call on one of    *)
(* them takes the result from it.                                          *)
(***************************************************************************)
RECURSIVE run(_, _, _)

\* pair that fails with the input it was given when parser2 fails
pair_err_original(parser1, parser2, inp, known) ==
    LET r1 == run(parser1, inp, known)
    IN  IF r1.kind # "Ok" THEN r1
        ELSE LET r2 == run(parser2, r1.rest, known)
             IN  CASE r2.kind = "Ok" ->
                        After(r1, After(r2, Ok(r2.rest, <<r1.out, r2.out>>)))
                   [] r2.kind = "Err" -> After(r1, After(r2, Err(inp)))
                   [] OTHER -> After(r1, r2)

pair(parser1, parser2, inp, known) ==
    LET r1 == run(parser1, inp, known)
    IN  IF r1.kind # "Ok" THEN r1
        ELSE LET r2 == run(parser2, r1.rest, known)
             IN  IF r2.kind = "Ok"
                 THEN After(r1, After(r2, Ok(r2.rest, <<r1.out, r2.out>>)))
                 ELSE After(r1, r2)

map(p, map_fn, inp, known) ==
    LET r == run(p, inp, known)
    IN  IF r.kind # "Ok" THEN r
        ELSE LET m == apply_map_fn(map_fn, r.out)
             IN  IF m.panic THEN After(r, Panic) ELSE [r EXCEPT !.out = m.v]

and_then(p, f, inp, known) ==
    LET r == run(p, inp, known)
    IN  IF r.kind # "Ok" THEN r
        ELSE After(r, run(and_then_closure(f, r.out), r.rest, known))

\* zero_or_one that pushes the item and forgets input = next_input
zero_or_one_no_advance(p, inp, known) ==
    LET r == run(p, inp, known)
    IN  CASE r.kind = "Ok" -> After(r, Ok(inp, <<r.out>>))
          [] r.kind = "Err" -> After(r, Ok(inp, <<>>))
          [] OTHER -> r

zero_or_one(p, inp, known) ==
    LET r == run(p, inp, known)
    IN  CASE r.kind = "Ok" -> After(r, Ok(r.rest, <<r.out>>))
          [] r.kind = "Err" -> After(r, Ok(inp, <<>>))
          [] OTHER -> r

\* while let Ok((next_input, next_item)) = parser.parse(input) {
\*     input = next_input; result.push(next_item); }
\* Ok((input, result))
\* acc is Ok((input, result)) as it stands before the test of the loop and r
\* is parser.parse(input).  A parser is a pure function: once it succeeds
\* and leaves the input as it was, it does so forever.
RECURSIVE while_let_Ok(_, _, _, _)
while_let_Ok(p, acc, r, known) ==
    IF r.kind = "Ok" /\ r.rest # acc.rest
    THEN while_let_Ok(p, After(r, [acc EXCEPT !.rest = r.rest, !.out = Append(@, r.out)]),
                      run(p, r.rest, known), known)
    ELSE CASE r.kind = "Ok" -> After(acc, After(r, Diverge))
           [] r.kind = "Err" -> After(r, acc)
           [] OTHER -> After(acc, r)

\* zero_or_more with if let where the source has while let
zero_or_more_if_let(p, inp, known) == zero_or_one(p, inp, known)

zero_or_more(p, inp, known) ==
    while_let_Ok(p, Ok(inp, <<>>), run(p, inp, known), known)

\* one_or_more that hands on the error of the parser: Err(e) => return Err(e)
one_or_more_parser_err(p, inp, known) ==
    LET r == run(p, inp, known)
    IN  CASE r.kind = "Ok" ->
               while_let_Ok(p, After(r, Ok(r.rest, <<r.out>>)), run(p, r.rest, known), known)
          [] r.kind = "Err" -> r
          [] OTHER -> r

one_or_more(p, inp, known) ==
    LET r == run(p, inp, known)
    IN  CASE r.kind = "Ok" ->
               while_let_Ok(p, After(r, Ok(r.rest, <<r.out>>)), run(p, r.rest, known), known)
          [] r.kind = "Err" -> After(r, Err(inp))
          [] OTHER -> r

\* pred that fails where the parser stopped: Err(next_input)
pred_advanced(p, predicate, inp, known) ==
    LET r == run(p, inp, known)
    IN  CASE r.kind = "Ok" ->
               IF predicate_holds(predicate, r.out) THEN r ELSE After(r, Err(r.rest))
          [] r.kind = "Err" -> r
          [] OTHER -> r

pred(p, predicate, inp, known) ==
    LET r == run(p, inp, known)
    IN  CASE r.kind = "Ok" ->
               IF predicate_holds(predicate, r.out) THEN r ELSE After(r, Err(inp))
          [] r.kind = "Err" -> After(r, Err(inp))
          [] OTHER -> r

\* either that runs parser2 where parser1 stopped: Err(e) => parser2.parse(e)
either_advanced(parser1, parser2, inp, known) ==
    LET r1 == run(parser1, inp, known)
    IN  IF r1.kind = "Err" THEN After(r1, run(parser2, r1.rest, known)) ELSE r1

either(parser1, parser2, inp, known) ==
    LET r1 == run(parser1, inp, known)
    IN  IF r1.kind = "Err" THEN After(r1, run(parser2, inp, known)) ELSE r1

\* json_value().parse(inp); the call is recorded in jv and the calls made
\* inside it in rec
call_json_value(p, inp, known) ==
    IF inp \in DOMAIN known THEN known[inp]
    ELSE LET r == run(p, inp, known)
         IN  [r EXCEPT !.jv = {Len(inp)},
                       !.rec = @ \cup {<<Len(inp), n>> : n \in r.jv}]

\* Parser::parse
run(p, inp, known) ==
    CASE p.op = "any_char" -> any_char(inp)
      [] p.op = "match_literal" -> match_literal(p.expected, inp)
      [] p.op = "pair" -> pair(p.parser1, p.parser2, inp, known)
      [] p.op = "map" -> map(p.parser, p.map_fn, inp, known)
      [] p.op = "and_then" -> and_then(p.parser, p.f, inp, known)
      [] p.op = "zero_or_one" -> zero_or_one(p.parser, inp, known)
      [] p.op = "zero_or_more" -> zero_or_more(p.parser, inp, known)
      [] p.op = "one_or_more" -> one_or_more(p.parser, inp, known)
      [] p.op = "pred" -> pred(p.parser, p.predicate, inp, known)
      [] p.op = "either" -> either(p.parser1, p.parser2, inp, known)
      [] p.op = "json_value" -> call_json_value(p.parser, inp, known)

\* the last k characters of text
Suffix(text, k) == SubSeq(text, Len(text) - k + 1, Len(text))

\* json_value() on the suffixes of text of up to k characters, the
\* shortest first
RECURSIVE json_value_on_suffixes(_, _)
json_value_on_suffixes(text, k) ==
    IF k < 0 THEN <<>>
    ELSE LET known == json_value_on_suffixes(text, k - 1)
         IN  known @@ (Suffix(text, k) :> run(json_value, Suffix(text, k), known))

\* combinator_parser::parse: json_value().parse(input).map(|(_, value)| value)
parse(inp) ==
    LET r == run(json_value, inp, json_value_on_suffixes(inp, Len(inp)))
    IN  IF r.kind = "Ok" THEN [r EXCEPT !.rest = <<>>] ELSE r

(***************************************************************************)
(* The inputs.  Every string of up to MaxLen characters of Alphabet, and   *)
(* longer texts of the shapes the grammar is about: arrays and objects of  *)
(* up to MaxItems and MaxPairs items, with and without a comma before the first item    *)
(* or after the last one, numbers at the limits of u64 and i64, and the    *)
(* literals.                                                               *)
(***************************************************************************)
Alphabet == {"[", "]", ",", "1", " ", "\""}

ShortStrings == UNION {[1..n -> Alphabet] : n \in 0..MaxLen}

RECURSIVE Join(_, _)
Join(items, sep) ==
    IF items = <<>> THEN <<>>
    ELSE IF Len(items) = 1 THEN Head(items)
    ELSE Head(items) \o sep \o Join(Tail(items), sep)

ItemSeqs(items, max) == UNION {[1..n -> items] : n \in 0..max}

Commas == {<<>>, <<",">>}

ListText(open, lead, items, trail, close) ==
    open \o lead \o Join(items, <<",">>) \o trail \o close

ArrayItems == {<<"1">>, <<"n", "u", "l", "l">>, <<"[", "]">>}

ArrayTexts ==
    {ListText(<<"[">>, lead, s, trail, <<"]">>) :
        lead \in Commas, s \in ItemSeqs(ArrayItems, MaxItems), trail \in Commas}

KeyValues == {<<<<"a">>, <<"1">>>>, <<<<"a">>, <<"2">>>>, <<<<"b">>, <<"1">>>>}

PairText(kv) == <<"\"">> \o kv[1] \o <<"\"", ":">> \o kv[2]

PairSeqs == ItemSeqs(KeyValues, MaxPairs)

ObjectText(lead, s, trail) ==
    ListText(<<"{">>, lead, [i \in DOMAIN s |-> PairText(s[i])], trail, <<"}">>)

ObjectTexts ==
    {ObjectText(lead, s, trail) : lead \in Commas, s \in PairSeqs, trail \in Commas}

Numerals ==
    { <<"0">>, <<"0", "7">>, <<"1", "U+0663">>,
      U64_MAX, SubSeq(U64_MAX, 1, 19) \o <<"6">>,
      I64_MAX, SubSeq(I64_MAX, 1, 18) \o <<"8">> }

NumberTexts ==
    {sign \o n \o tail : sign \in {<<>>, <<"-">>}, n \in Numerals,
                         tail \in {<<>>, <<"]">>}}

LiteralTexts ==
    { <<"n", "u", "l", "l">>, <<"t", "r", "u", "e">>, <<"f", "a", "l", "s", "e">>,
      <<"n", "u", "l">>, <<"-">>, <<"-", "-", "1">>, <<"-", "1", "-">>,
      <<"n", "u", "l", "l", " ", "g", "a", "r", "b", "a", "g", "e">>,
      <<"\"", "a", "\"", ":", " ", "n", "u", "l", "l">>,
      <<",", "\"", "a", "\"", ":", "1", ",">>,
      <<"\n", "t", "r", "u", "e", "\t">>,
      <<"U+00A0", "1", "U+00A0">>, <<"\"", "U+00E9", "\"">>, <<"U+00E9">>,
      <<"\"", "\"">>, <<"\"", "1", "\"">>, <<"\"", "1">>, <<"[", "\"", "\"", "]">>,
      <<"\"", "\"", " ", "1">> }

Inputs == ShortStrings \cup ArrayTexts \cup ObjectTexts \cup NumberTexts \cup LiteralTexts

(***************************************************************************)
(* The parsers the combinators are applied to: some fail after they have   *)
(* read a character, some fail at once, one reads nothing and succeeds.    *)
(***************************************************************************)
Literals ==
    { <<"[">>, <<"[", "]">>, <<"n", "u", "l", "l">>, <<"N", "u", "l", "l">>,
      <<"U+00E9">> }

UnitParsers ==
    { P_match_literal(<<"[">>),
      left(P_match_literal(<<"[">>), P_match_literal(<<"]">>)) }

CharParsers == {P_any_char, right(P_match_literal(<<"[">>), P_any_char)}

Predicates == {"not_quote", "is_numeric", "is_whitespace"}

\* the parsers handed to zero_or_one, zero_or_more and one_or_more
RepeatedParsers ==
    UnitParsers \cup CharParsers
        \cup {P_pred(P_any_char, "is_numeric"), P_pred(P_any_char, "not_quote")}

(***************************************************************************)
(* The state machine: an input is chosen, and one parser is applied to it. *)
(***************************************************************************)
NoParser == [op |-> "none"]

Init ==
    /\ input \in Inputs
    /\ memo = json_value_on_suffixes(input, Len(input))
    /\ parser = NoParser
    /\ result = NoResult

Idle == result.kind = "None"

Applied(p) ==
    /\ parser' = p
    /\ result' = run(p, input, memo)
    /\ UNCHANGED <<input, memo>>

Call_any_char ==
    /\ Idle
    /\ Applied(P_any_char)

Call_match_literal ==
    /\ Idle
    /\ \E expected \in Literals : Applied(P_match_literal(expected))

Call_pair ==
    /\ Idle
    /\ \E p1 \in UnitParsers, p2 \in UnitParsers : Applied(P_pair(p1, p2))

Call_map ==
    /\ Idle
    /\ \E p \in UnitParsers : Applied(P_map(p, "null_value"))

Call_and_then ==
    /\ Idle
    /\ \E p \in UnitParsers, f \in {"int", "array_value"} : Applied(P_and_then(p, f))

Call_left ==
    /\ Idle
    /\ \E p1 \in UnitParsers, p2 \in CharParsers : Applied(left(p1, p2))

Call_right ==
    /\ Idle
    /\ \E p1 \in UnitParsers, p2 \in CharParsers : Applied(right(p1, p2))

Call_zero_or_one ==
    /\ Idle
    /\ \E p \in RepeatedParsers : Applied(P_zero_or_one(p))

Call_zero_or_more ==
    /\ Idle
    /\ \E p \in RepeatedParsers \cup {space0} : Applied(P_zero_or_more(p))

Call_one_or_more ==
    /\ Idle
    /\ \E p \in RepeatedParsers : Applied(P_one_or_more(p))

Call_pred ==
    /\ Idle
    /\ \E p \in CharParsers, predicate \in Predicates : Applied(P_pred(p, predicate))

Call_either ==
    /\ Idle
    /\ \E p1 \in UnitParsers, p2 \in UnitParsers : Applied(P_either(p1, p2))

Call_quoted_string ==
    /\ Idle
    /\ Applied(quoted_string)

Call_uint ==
    /\ Idle
    /\ Applied(uint)

Call_int ==
    /\ Idle
    /\ Applied(int)

Call_whitespace_char ==
    /\ Idle
    /\ Applied(whitespace_char)

Call_space1 ==
    /\ Idle
    /\ Applied(space1)

Call_space0 ==
    /\ Idle
    /\ Applied(space0)

Call_trim ==
    /\ Idle
    /\ \E p \in UnitParsers : Applied(trim(p))

Call_true_value ==
    /\ Idle
    /\ Applied(true_value)

Call_false_value ==
    /\ Idle
    /\ Applied(false_value)

Call_bool_value ==
    /\ Idle
    /\ Applied(bool_value)

Call_null_value ==
    /\ Idle
    /\ Applied(null_value)

Call_string_value ==
    /\ Idle
    /\ Applied(string_value)

Call_number_value ==
    /\ Idle
    /\ Applied(number_value)

Call_primitive_value ==
    /\ Idle
    /\ Applied(primitive_value)

Call_object_pair ==
    /\ Idle
    /\ Applied(object_pair)

Call_comma_preceded_object_pair ==
    /\ Idle
    /\ Applied(comma_preceded_object_pair)

Call_object_value ==
    /\ Idle
    /\ Applied(object_value)

Call_comma_preceded_value ==
    /\ Idle
    /\ Applied(comma_preceded_value)

Call_array_value ==
    /\ Idle
    /\ Applied(array_value)

Call_nonprimitive_value ==
    /\ Idle
    /\ Applied(nonprimitive_value)

Call_json_value ==
    /\ Idle
    /\ Applied(json_value)

Call_parse ==
    /\ Idle
    /\ parser' = [op |-> "parse"]
    /\ result' = parse(input)
    /\ UNCHANGED <<input, memo>>

Next ==
    \/ Call_any_char
    \/ Call_match_literal
    \/ Call_pair
    \/ Call_map
    \/ Call_and_then
    \/ Call_left
    \/ Call_right
    \/ Call_zero_or_one
    \/ Call_zero_or_more
    \/ Call_one_or_more
    \/ Call_pred
    \/ Call_either
    \/ Call_quoted_string
    \/ Call_uint
    \/ Call_int
    \/ Call_whitespace_char
    \/ Call_space1
    \/ Call_space0
    \/ Call_trim
    \/ Call_true_value
    \/ Call_false_value
    \/ Call_bool_value
    \/ Call_null_value
    \/ Call_string_value
    \/ Call_number_value
    \/ Call_primitive_value
    \/ Call_object_pair
    \/ Call_comma_preceded_object_pair
    \/ Call_object_value
    \/ Call_comma_preceded_value
    \/ Call_array_value
    \/ Call_nonprimitive_value
    \/ Call_json_value
    \/ Call_parse

Spec == Init /\ [][Next]_vars

(***************************************************************************)
(* Properties.                                                             *)
(***************************************************************************)
\* two outcomes agree in what the caller sees
Same(a, b) ==
    /\ a.kind = b.kind
    /\ a.rest = b.rest
    /\ a.kind = "Ok" => a.out = b.out

\* what the parser read: the input without what it left
Consumed == SubSeq(input, 1, Len(input) - Len(result.rest))

\* C1: whenever a parser of the combinator engine succeeds, the remaining
\* input it returns is a suffix of the input it was given.
C1_RemainingIsSuffix ==
    (result.kind = "Ok" /\ parser.op # "parse") => IsSuffix(result.rest, input)

\* C1 witness: a parser of the JSON grammar read a part of its input and
\* left the rest.
C1_Witness ==
    /\ parser = json_value
    /\ result.kind = "Ok"
    /\ Len(result.rest) \in 1..(Len(input) - 1)

\* C2: either(p1, p2) returns p1's result when p1 succeeds, and when p1
\* fails it returns what p2 gives on the input either was given.
C2_EitherRetriesOnOriginalInput ==
    parser.op = "either" =>
        LET r1 == run(parser.parser1, input, memo)
        IN  /\ r1.kind = "Ok" => Same(result, r1)
            /\ r1.kind = "Err" => Same(result, run(parser.parser2, input, memo))

\* C2 witness: p1 failed after it had read a character, and p2 succeeded on
\* the original input although it fails where p1 stopped.
C2_Witness ==
    /\ parser.op = "either"
    /\ LET r1 == run(parser.parser1, input, memo)
       IN  /\ r1.kind = "Err"
           /\ r1.rest # input
           /\ run(parser.parser2, r1.rest, memo).kind = "Err"
    /\ result.kind = "Ok"

\* C3: array_value fails on every input that begins with "[" "," and
\* object_value on every input that begins with "{" ",".
C3_LeadingCommaRejected ==
    /\ (parser = array_value /\ Len(input) >= 2 /\ input[1] = "[" /\ input[2] = ",")
           => result.kind # "Ok"
    /\ (parser = object_value /\ Len(input) >= 2 /\ input[1] = "{" /\ input[2] = ",")
           => result.kind # "Ok"

\* text ends with close, and the character before it that is no whitespace
\* is a comma
TrailingComma(text, close) ==
    /\ Len(text) >= 2
    /\ text[Len(text)] = close
    /\ \E i \in 1..(Len(text) - 1) :
          /\ text[i] = ","
          /\ \A j \in (i + 1)..(Len(text) - 1) : is_whitespace(text[j])

TrailingCommaArrayTexts ==
    {ListText(<<"[">>, lead, s, <<",">>, <<"]">>) :
        lead \in Commas, s \in ItemSeqs(ArrayItems, MaxItems)}

TrailingCommaObjectTexts ==
    {ObjectText(lead, s, <<",">>) : lead \in Commas, s \in PairSeqs}

\* C4: array_value and object_value reject a trailing comma: the text one of
\* them accepts never ends with a comma (and whitespace) before the closing
\* bracket, and an array or object text written with a comma after its
\* last item fails.
C4_TrailingCommaRejected ==
    /\ (parser = array_value /\ result.kind = "Ok") => ~TrailingComma(Consumed, "]")
    /\ (parser = object_value /\ result.kind = "Ok") => ~TrailingComma(Consumed, "}")
    /\ (parser = array_value /\ input \in TrailingCommaArrayTexts)
           => result.kind = "Err"
    /\ (parser = object_value /\ input \in TrailingCommaObjectTexts)
           => result.kind = "Err"

\* C4 witness: array_value was applied to [1,] or a longer array text that
\* has an item and a comma after the last one, and failed.
C4_Witness ==
    /\ parser = array_value
    /\ input \in TrailingCommaArrayTexts
    /\ input[2] # ","
    /\ Len(input) >= 4
    /\ result.kind = "Err"

AllWhitespace(s) == \A i \in 1..Len(s) : is_whitespace(s[i])

\* C5: parse succeeds exactly when json_value succeeds and what json_value
\* leaves of the input is empty or whitespace.
C5_ParseRejectsTrailingInput ==
    parser.op = "parse" =>
        LET r == run(json_value, input, memo)
        IN  (result.kind = "Ok") <=> (r.kind = "Ok" /\ AllWhitespace(r.rest))

\* the i-th character is punctuation outside a string
Structural(d, i) ==
    /\ d[i] \in {"{", "}", "[", "]", ",", ":"}
    /\ Cardinality({j \in 1..(i - 1) : d[j] = "\""}) % 2 = 0

\* the places next to a punctuation character, and the two ends
Gaps(d) ==
    {0, Len(d)} \cup UNION {{i - 1, i} : i \in {j \in 1..Len(d) : Structural(d, j)}}

WsRuns == UNION {[1..n -> {" ", "\n"}] : n \in 1..MaxWs}

InsertAt(d, g, ws) == SubSeq(d, 1, g) \o ws \o SubSeq(d, g + 1, Len(d))

\* C6: a document parse accepts is accepted with the same Value when a run
\* of whitespace is inserted before or after a punctuation character or at
\* an end of the document.
C6_WhitespaceInsertionKeepsValue ==
    (parser.op = "parse" /\ result.kind = "Ok") =>
        \A g \in Gaps(input), ws \in WsRuns :
            Same(parse(InsertAt(input, g, ws)), result)

HasRepeatedKey(s) == \E i, j \in DOMAIN s : i < j /\ s[i][1] = s[j][1]

LastIndexOf(s, key) ==
    CHOOSE i \in DOMAIN s :
        /\ s[i][1] = key
        /\ \A j \in DOMAIN s : s[j][1] = key => j <= i

\* C7: object_value on an object text that holds a key more than once
\* succeeds, and the Object maps each key to the value of its last
\* occurrence in the text.
C7_LastWriteWins ==
    parser = object_value =>
        \A s \in PairSeqs :
            (HasRepeatedKey(s) /\ input = ObjectText(<<>>, s, <<>>)) =>
                /\ result.kind = "Ok"
                /\ result.out.type = "Object"
                /\ DOMAIN result.out.v = {s[i][1] : i \in DOMAIN s}
                /\ \A i \in DOMAIN s :
                      result.out.v[s[i][1]] =
                          Value_Number(NumberValue_UInt(s[LastIndexOf(s, s[i][1])][2]))

\* C7 witnesses: the key is repeated with another value, and its earlier
\* occurrence is a pair after a comma.
C7_Witness ==
    /\ parser = object_value
    /\ result.kind = "Ok"
    /\ \E s \in PairSeqs :
          /\ Len(s) = 3
          /\ s[2][1] = s[3][1]
          /\ s[2][2] # s[3][2]
          /\ input = ObjectText(<<>>, s, <<>>)

\* C8: uint and int return Ok or Err on every input; they never panic.
C8_IntegersNeverPanic ==
    parser \in {uint, int} => result.kind \in {"Ok", "Err"}

\* the parsers the loops of the JSON grammar repeat
LoopBodies ==
    { whitespace_char, P_pred(P_any_char, "not_quote"),
      P_pred(P_any_char, "is_numeric"), comma_preceded_value,
      comma_preceded_object_pair }

\* C9: parse and json_value end on every input, every call of json_value
\* made inside a call of json_value is on a shorter input, and every parser
\* a loop of the grammar repeats reads at least one character when it
\* succeeds.
C9_ParseTerminates ==
    /\ parser.op \in {"parse", "json_value"} =>
          /\ result.kind # "Diverge"
          /\ \A e \in result.rec : e[2] < e[1]
    /\ (parser \in LoopBodies /\ result.kind = "Ok") => Len(result.rest) < Len(input)

\* C9 witness: parse accepted an array of two or more elements, so the loop
\* over the elements was repeated and json_value was called inside itself.
C9_Witness ==
    /\ parser.op = "parse"
    /\ result.kind = "Ok"
    /\ result.rec # {}
    /\ result.out.type = "Array"
    /\ Len(result.out.v) >= 2

\* C10: pred(p, predicate) gives p's result when p succeeds and the
\* predicate holds of its output; when p fails or the predicate rejects the
\* output it fails with the input it was given.
C10_PredFailsAtOriginalInput ==
    parser.op = "pred" =>
        LET r == run(parser.parser, input, memo)
        IN  /\ (r.kind = "Ok" /\ predicate_holds(parser.predicate, r.out))
                => Same(result, r)
            /\ (r.kind = "Err" \/ (r.kind = "Ok" /\ ~predicate_holds(parser.predicate, r.out)))
                => (result.kind = "Err" /\ result.rest = input)

\* C10 witness: p read a character the predicate rejected, and pred failed
\* with the whole input.
C10_Witness ==
    /\ parser.op = "pred"
    /\ LET r == run(parser.parser, input, memo)
       IN  /\ r.kind = "Ok"
           /\ r.rest # input
           /\ ~predicate_holds(parser.predicate, r.out)
    /\ result.kind = "Err"
    /\ result.rest = input

\* the input of the k-th application of p in a loop that starts at inp
\* (k = 0: the first application)
\* (inputs lists the inputs of the applications so far, the first at the
\* head)
RECURSIVE InputsUpTo(_, _, _)
InputsUpTo(p, inputs, k) ==
    IF Len(inputs) > k THEN inputs
    ELSE InputsUpTo(p, Append(inputs, run(p, inputs[Len(inputs)], memo).rest), k)

InputAfter(p, inp, k) == InputsUpTo(p, <<inp>>, k)[k + 1]

\* C11: zero_or_more(p) never fails; when it returns, every application of p
\* before the last succeeded on what the one before it left, the outputs are
\* listed in that order, the last application failed, and the remaining
\* input is the input of that failed application.
C11_ZeroOrMoreCollectsUntilFailure ==
    parser.op = "zero_or_more" =>
        /\ result.kind \in {"Ok", "Diverge"}
        /\ result.kind = "Ok" =>
              LET n == Len(result.out)
              IN  /\ \A k \in 1..n :
                        LET r == run(parser.parser, InputAfter(parser.parser, input, k - 1), memo)
                        IN  r.kind = "Ok" /\ r.out = result.out[k]
                  /\ run(parser.parser, InputAfter(parser.parser, input, n), memo).kind = "Err"
                  /\ result.rest = InputAfter(parser.parser, input, n)
        /\ run(parser.parser, input, memo).kind = "Err" =>
              (result.kind = "Ok" /\ result.out = <<>> /\ result.rest = input)

\* C11 witness: zero_or_more collected three or more outputs that are not
\* all equal, and left a part of the input.
C11_Witness ==
    /\ parser.op = "zero_or_more"
    /\ result.kind = "Ok"
    /\ Len(result.out) >= 3
    /\ result.out[1] # result.out[2]
    /\ result.rest # <<>>

\* C12: one_or_more(p) fails exactly when the first application of p fails,
\* and then with the input it was given; when it succeeds its list has an
\* element or more and its result is the result of zero_or_more(p) on the
\* same input.
C12_OneOrMoreNeedsFirst ==
    parser.op = "one_or_more" =>
        LET first == run(parser.parser, input, memo)
        IN  /\ (result.kind = "Err") <=> (first.kind = "Err")
            /\ result.kind = "Err" => result.rest = input
            /\ result.kind = "Ok" =>
                  /\ Len(result.out) >= 1
                  /\ Same(result, run(P_zero_or_more(parser.parser), input, memo))

\* C12 witnesses: the first application failed after it had read a
\* character and one_or_more failed with the whole input.
C12_Witness ==
    /\ parser.op = "one_or_more"
    /\ result.kind = "Err"
    /\ result.rest = input
    /\ run(parser.parser, input, memo).rest # input

\* C13: zero_or_one(p) never fails and applies p once: when p succeeds the
\* list holds p's output alone and the remaining input is p's, and when p
\* fails the list is empty and the remaining input is the input.
C13_ZeroOrOneAppliesOnce ==
    parser.op = "zero_or_one" =>
        LET r == run(parser.parser, input, memo)
        IN  /\ result.kind = "Ok"
            /\ r.kind = "Ok" => (result.out = <<r.out>> /\ result.rest = r.rest)
            /\ r.kind = "Err" => (result.out = <<>> /\ result.rest = input)

\* C13 witness: p succeeded, and would succeed again on what zero_or_one
\* left.
C13_Witness ==
    /\ parser.op = "zero_or_one"
    /\ result.kind = "Ok"
    /\ Len(result.out) = 1
    /\ result.rest # input
    /\ run(parser.parser, result.rest, memo).kind = "Ok"

\* C14: pair(p1, p2) succeeds only when p1 succeeds on the input and p2 on
\* what p1 left, with both outputs and p2's remaining input; when p1 fails
\* the error is p1's, when p2 fails the error is p2's; left gives p1's
\* output alone and right p2's.
C14_PairRunsInSeries ==
    LET pr == IF parser.op = "map" THEN parser.parser ELSE parser
        r1 == run(pr.parser1, input, memo)
        r2 == run(pr.parser2, r1.rest, memo)
    IN  (parser.op = "pair"
           \/ (parser.op = "map" /\ parser.map_fn \in {"left", "right"})) =>
            /\ (result.kind = "Ok") <=> (r1.kind = "Ok" /\ r2.kind = "Ok")
            /\ r1.kind = "Err" => (result.kind = "Err" /\ result.rest = r1.rest)
            /\ (r1.kind = "Ok" /\ r2.kind = "Err") =>
                   (result.kind = "Err" /\ result.rest = r2.rest)
            /\ result.kind = "Ok" =>
                   /\ result.rest = r2.rest
                   /\ parser.op = "pair" => result.out = <<r1.out, r2.out>>
                   /\ (parser.op = "map" /\ parser.map_fn = "left") => result.out = r1.out
                   /\ (parser.op = "map" /\ parser.map_fn = "right") => result.out = r2.out

\* C14 witness: p1 read a part of the input, p2 failed on the rest, and the
\* error of right(p1, p2) is not the input.
C14_Witness ==
    /\ parser.op = "map"
    /\ parser.map_fn = "right"
    /\ run(parser.parser.parser1, input, memo).kind = "Ok"
    /\ result.kind = "Err"
    /\ result.rest # input

\* text begins with prefix
StartsWith(text, prefix) ==
    /\ Len(prefix) <= Len(text)
    /\ SubSeq(text, 1, Len(prefix)) = prefix

\* C15: match_literal(expected) succeeds exactly when the input begins with
\* expected, and leaves the input without that prefix; otherwise it fails
\* with the input unchanged, and it never panics.
C15_MatchLiteralExactPrefix ==
    parser.op = "match_literal" =>
        /\ result.kind \in {"Ok", "Err"}
        /\ (result.kind = "Ok") <=> StartsWith(input, parser.expected)
        /\ result.kind = "Ok" =>
               result.rest = SubSeq(input, Len(parser.expected) + 1, Len(input))
        /\ result.kind = "Err" => result.rest = input

\* C15 witness: the length of expected in bytes ends inside a character of
\* the input, and match_literal failed.
C15_Witness ==
    /\ parser.op = "match_literal"
    /\ Len(input) >= 1
    /\ input[1] \in TwoByteChars
    /\ str_len(parser.expected) = 1
    /\ result.kind = "Err"
    /\ result.rest = input

\* the places of the quotes after the first character
LaterQuotes(text) == {i \in 2..Len(text) : text[i] = "\""}

Min(S) == CHOOSE i \in S : \A j \in S : i <= j

\* C16: quoted_string succeeds exactly when the input begins with a quote
\* and holds a later quote; its output is the characters between the two,
\* as they are, and its remaining input begins after the closing quote.
C16_QuotedStringToFirstQuote ==
    parser = quoted_string =>
        LET closed == Len(input) >= 2 /\ input[1] = "\"" /\ LaterQuotes(input) # {}
        IN  /\ (result.kind = "Ok") <=> closed
            /\ ~closed => result.kind = "Err"
            /\ result.kind = "Ok" =>
                   LET i == Min(LaterQuotes(input))
                   IN  /\ result.out = SubSeq(input, 2, i - 1)
                       /\ result.rest = SubSeq(input, i + 1, Len(input))

\* C16 witness: a string of a character or more was read up to the first
\* of two later quotes.
C16_Witness ==
    /\ parser = quoted_string
    /\ result.kind = "Ok"
    /\ result.out # <<>>
    /\ result.rest # <<>>

\* the longest prefix of ASCII digits
DigitRun(text) ==
    LET n == Min({k \in 0..Len(text) : k = Len(text) \/ ~is_ascii_digit(text[k + 1])})
    IN  SubSeq(text, 1, n)

\* C17: number_value gives UInt(n) on a run of digits without a sign and
\* Int(-n) on "-" and a run of digits, n the decimal value of the longest
\* run of digits, and leaves what follows the run; it fails on "-" without
\* a digit and on an input that begins with neither a digit nor "-".
C17_NumberValueMapsDigits ==
    parser = number_value =>
        LET signed == Len(input) >= 1 /\ input[1] = "-"
            digits == DigitRun(IF signed THEN Tail(input) ELSE input)
            n == strip_zeros(digits)
            rest == SubSeq(input, Len(digits) + (IF signed THEN 2 ELSE 1), Len(input))
        IN  /\ digits = <<>> => result.kind = "Err"
            /\ (digits # <<>> /\ ~signed) =>
                   /\ result.kind = "Ok"
                   /\ result.out = Value_Number(NumberValue_UInt(n))
                   /\ result.rest = rest
            /\ (digits # <<>> /\ signed) =>
                   /\ result.kind = "Ok"
                   /\ result.out =
                          Value_Number(NumberValue_Int([neg |-> n # <<"0">>, mag |-> n]))
                   /\ result.rest = rest

(***************************************************************************)
(* The token-vector parser: lib.rs, tokenize.rs and parse.rs.              *)
(*                                                                         *)
(* tokenize.rs.  chars is the Vec<char> of the input and index is the      *)
(* usize the functions share, counted from 0 as in the source.  A read of  *)
(* chars[index] with index >= chars.len() panics.  An f64 is kept as its   *)
(* sign and its decimal digits before and after the point, which is exact  *)
(* for the short numerals of the model.                                    *)
(***************************************************************************)
Token(t) == [t |-> t, v |-> Unit]

Token_Number(f) == [t |-> "Number", v |-> f]

Token_String(string) == [t |-> "String", v |-> string]

\* Ok(token) with the index the call leaves, Err(error), or a panic
TokenOk(token, index) == [kind |-> "Ok", token |-> token, index |-> index]

TokenizeErr(err) == [kind |-> "Err", err |-> err]

IndexPanic == [kind |-> "Panic"]

\* char::is_ascii_whitespace
is_ascii_whitespace(c) == c \in {" ", "\t", "\n", "\r", "\f"}

\* chars[index], for an index within the vector
CharAt(chars, index) == chars[index + 1]

\* tokenize_null, tokenize_true, tokenize_false: the loop over the
\* characters of the literal, k of them matched so far
RECURSIVE tokenize_literal(_, _, _, _, _)
tokenize_literal(expected, token, chars, index, k) ==
    IF k = Len(expected)
    THEN TokenOk(token, index - 1)
    ELSE IF index >= Len(chars) THEN IndexPanic
    ELSE IF expected[k + 1] # CharAt(chars, index)
         THEN TokenizeErr("UnfinishedLiteralValue")
    ELSE tokenize_literal(expected, token, chars, index + 1, k + 1)

tokenize_null(chars, index) ==
    tokenize_literal(<<"n", "u", "l", "l">>, Token("Null"), chars, index, 0)

tokenize_true(chars, index) ==
    tokenize_literal(<<"t", "r", "u", "e">>, Token("True"), chars, index, 0)

tokenize_false(chars, index) ==
    tokenize_literal(<<"f", "a", "l", "s", "e">>, Token("False"), chars, index, 0)

\* a tokenize_string in which a backslash always starts an escape
RECURSIVE tokenize_string_loop_no_toggle(_, _, _, _)
tokenize_string_loop_no_toggle(chars, index, string, is_escaping) ==
    IF index + 1 >= Len(chars) THEN TokenizeErr("UnclosedQuotes")
    ELSE LET ch == CharAt(chars, index + 1)
         IN  IF ch = "\"" /\ ~is_escaping
             THEN TokenOk(Token_String(string), index + 1)
             ELSE tokenize_string_loop_no_toggle(chars, index + 1, Append(string, ch),
                                                 ch = "\\")

\* tokenize_string: the loop, entered with index at the character before
\* the next one to read
RECURSIVE tokenize_string_loop(_, _, _, _)
tokenize_string_loop(chars, index, string, is_escaping) ==
    IF index + 1 >= Len(chars) THEN TokenizeErr("UnclosedQuotes")
    ELSE LET ch == CharAt(chars, index + 1)
         IN  IF ch = "\"" /\ ~is_escaping
             THEN TokenOk(Token_String(string), index + 1)
             ELSE tokenize_string_loop(chars, index + 1, Append(string, ch),
                                       IF ch = "\\" THEN ~is_escaping ELSE FALSE)

tokenize_string(chars, index) == tokenize_string_loop(chars, index, <<>>, FALSE)

\* str::parse::<f64> on a string of digits, "-" and at most one ".":
\* [-] digits [. [digits]]  or  [-] . digits
parse_f64(s) ==
    LET neg == s # <<>> /\ Head(s) = "-"
        body == IF neg THEN Tail(s) ELSE s
        dots == {i \in 1..Len(body) : body[i] = "."}
        dot == IF dots = {} THEN Len(body) + 1 ELSE CHOOSE i \in dots : TRUE
        whole == SubSeq(body, 1, dot - 1)
        frac == SubSeq(body, dot + 1, Len(body))
        AllDigits(d) == \A i \in 1..Len(d) : is_ascii_digit(d[i])
        ok == /\ AllDigits(whole)
              /\ AllDigits(frac)
              /\ Len(whole) + Len(frac) >= 1
                StripEnd(d) ==
            SubSeq(d, 1, IF \A i \in 1..Len(d) : d[i] = "0" THEN 0
                         ELSE CHOOSE i \in 1..Len(d) :
                                  d[i] # "0" /\ \A j \in (i + 1)..Len(d) : d[j] = "0")
    IN  IF ~ok THEN [ok |-> FALSE, f |-> Unit]
        ELSE LET i == IF whole = <<>> THEN <<"0">> ELSE strip_zeros(whole)
                 f == StripEnd(frac)
             IN  [ok |-> TRUE,
                  f |-> [neg |-> neg /\ ~(i = <<"0">> /\ f = <<>>), int |-> i, frac |-> f]]

\* tokenize_float: the loop that collects the digits, "-" and the first "."
RECURSIVE tokenize_float_loop(_, _, _, _)
tokenize_float_loop(chars, index, unparsed_num, has_decimal) ==
    IF index < Len(chars)
       /\ (\/ is_ascii_digit(CharAt(chars, index))
           \/ CharAt(chars, index) = "-"
           \/ (CharAt(chars, index) = "." /\ ~has_decimal))
    THEN tokenize_float_loop(chars, index + 1,
                             Append(unparsed_num, CharAt(chars, index)),
                             has_decimal \/ CharAt(chars, index) = ".")
    ELSE LET r == parse_f64(unparsed_num)
         IN  IF r.ok THEN TokenOk(Token_Number(r.f), index - 1)
             ELSE TokenizeErr("ParseNumberError")

tokenize_float(chars, index) == tokenize_float_loop(chars, index, <<>>, FALSE)

\* make_token: the whitespace loop, then the match on the character
RECURSIVE make_token(_, _)
make_token(chars, index) ==
    LET ch == CharAt(chars, index)
    IN  IF is_ascii_whitespace(ch)
        THEN IF index + 1 >= Len(chars) THEN TokenizeErr("UnexpectedEof")
             ELSE make_token(chars, index + 1)
        ELSE CASE ch = "[" -> TokenOk(Token("LeftBracket"), index)
               [] ch = "]" -> TokenOk(Token("RightBracket"), index)
               [] ch = "{" -> TokenOk(Token("LeftBrace"), index)
               [] ch = "}" -> TokenOk(Token("RightBrace"), index)
               [] ch = "," -> TokenOk(Token("Comma"), index)
               [] ch = ":" -> TokenOk(Token("Colon"), index)
               [] ch = "n" -> tokenize_null(chars, index)
               [] ch = "t" -> tokenize_true(chars, index)
               [] ch = "f" -> tokenize_false(chars, index)
               [] is_ascii_digit(ch) \/ ch = "-" -> tokenize_float(chars, index)
               [] ch = "\"" -> tokenize_string(chars, index)
               [] OTHER -> TokenizeErr("CharNotRecognized")

\* tokenize: the loop while index < chars.len()
RECURSIVE tokenize_loop(_, _, _)
tokenize_loop(chars, index, tokens) ==
    IF index < Len(chars)
    THEN LET r == make_token(chars, index)
         IN  IF r.kind = "Ok"
             THEN tokenize_loop(chars, r.index + 1, Append(tokens, r.token))
             ELSE r
    ELSE [kind |-> "Ok", tokens |-> tokens]

tokenize(inp) == tokenize_loop(inp, 0, <<>>)

(***************************************************************************)
(* parse.rs and lib.rs.  A character is written as itself when it is       *)
(* printable ASCII, as its escape for tab, line feed, form feed and        *)
(* carriage return, and as "U+XXXX" otherwise (U+0060 included, which a    *)
(* string of this language cannot hold).  A read of tokens[index] with     *)
(* index >= tokens.len() panics.                                           *)
(***************************************************************************)
Value_Boolean(b) == [type |-> "Boolean", v |-> b]

\* HashMap::new and HashMap::insert
HashMap_new == [k \in {} |-> Unit]

HashMap_insert(m, key, value) ==
    [k \in DOMAIN m \cup {key} |-> IF k = key THEN value ELSE m[k]]

HexDigits ==
    <<"0", "1", "2", "3", "4", "5", "6", "7", "8", "9", "A", "B", "C", "D", "E", "F">>

LowerHexDigits == <<"a", "b", "c", "d", "e", "f">>

\* char::to_digit(16): the digit's value, or -1 for None
to_digit_16(c) ==
    IF \E i \in 1..16 : HexDigits[i] = c
    THEN (CHOOSE i \in 1..16 : HexDigits[i] = c) - 1
    ELSE IF \E i \in 1..6 : LowerHexDigits[i] = c
         THEN (CHOOSE i \in 1..6 : LowerHexDigits[i] = c) + 9
         ELSE -1

\* the printable ASCII characters, U+0020 to U+007E
PrintableAscii ==
    <<" ", "!", "\"", "#", "$", "%", "&", "'", "(", ")", "*", "+", ",", "-", ".", "/",
      "0", "1", "2", "3", "4", "5", "6", "7", "8", "9", ":", ";", "<", "=", ">", "?",
      "@", "A", "B", "C", "D", "E", "F", "G", "H", "I", "J", "K", "L", "M", "N", "O",
      "P", "Q", "R", "S", "T", "U", "V", "W", "X", "Y", "Z", "[", "\\", "]", "^", "_",
      "U+0060", "a", "b", "c", "d", "e", "f", "g", "h", "i", "j", "k", "l", "m", "n", "o",
      "p", "q", "r", "s", "t", "u", "v", "w", "x", "y", "z", "{", "|", "}", "~">>

\* the character with code point n, n < 65536
CharOfCode(n) ==
    CASE n >= 32 /\ n <= 126 -> PrintableAscii[n - 31]
      [] n = 9 -> "\t"
      [] n = 10 -> "\n"
      [] n = 12 -> "\f"
      [] n = 13 -> "\r"
      [] OTHER -> "U+" \o HexDigits[(n \div 4096) + 1] \o HexDigits[((n \div 256) % 16) + 1]
                       \o HexDigits[((n \div 16) % 16) + 1] \o HexDigits[(n % 16) + 1]

\* char::from_u32: None ("") for a surrogate code point
from_u32(n) == IF n >= 55296 /\ n <= 57343 THEN "" ELSE CharOfCode(n)

UnescapeOk(string) == [kind |-> "Ok", string |-> string]

TokenParseErr(err) == [kind |-> "Err", err |-> err]

\* the arm for u of unescape_string, given the characters after the u
unicode_escape(chars) ==
    LET n == IF Len(chars) < 4 THEN Len(chars) ELSE 4
        bad == {i \in 1..n : to_digit_16(chars[i]) = -1}
    IN  IF bad # {} THEN TokenParseErr("InvalidHexValue")
        ELSE IF n < 4 THEN TokenParseErr("UnfinishedEscape")
        ELSE LET sum == 4096 * to_digit_16(chars[1]) + 256 * to_digit_16(chars[2])
                        + 16 * to_digit_16(chars[3]) + to_digit_16(chars[4])
             IN  IF from_u32(sum) = "" THEN TokenParseErr("InvalidHexValue")
                 ELSE UnescapeOk(<<from_u32(sum)>>)

\* unescape_string: the while let loop over the characters
RECURSIVE unescape_loop(_, _, _)
unescape_loop(chars, output, is_escaping) ==
    IF chars = <<>> THEN UnescapeOk(output)
    ELSE LET next_char == Head(chars)
         IN  IF is_escaping
             THEN CASE next_char = "b" -> unescape_loop(Tail(chars), Append(output, CharOfCode(8)), FALSE)
                    [] next_char = "f" -> unescape_loop(Tail(chars), Append(output, CharOfCode(18)), FALSE)
                    [] next_char = "n" -> unescape_loop(Tail(chars), Append(output, "\n"), FALSE)
                    [] next_char = "r" -> unescape_loop(Tail(chars), Append(output, "\r"), FALSE)
                    [] next_char = "t" -> unescape_loop(Tail(chars), Append(output, "\t"), FALSE)
                    [] next_char = "u" ->
                         LET u == unicode_escape(Tail(chars))
                         IN  IF u.kind = "Ok"
                             THEN unescape_loop(DropChars(Tail(chars), 4),
                                                output \o u.string, FALSE)
                             ELSE u
                    [] OTHER -> unescape_loop(Tail(chars), Append(output, next_char), FALSE)
             ELSE IF next_char = "\\"
                  THEN unescape_loop(Tail(chars), output, TRUE)
                  ELSE unescape_loop(Tail(chars), Append(output, next_char), FALSE)

unescape_string(inp) == unescape_loop(inp, <<>>, FALSE)

ParseOk(value, index) == [kind |-> "Ok", value |-> value, index |-> index]

parse_string(inp, index) ==
    LET unescaped == unescape_string(inp)
    IN  IF unescaped.kind = "Ok"
        THEN ParseOk(Value_String(unescaped.string), index)
        ELSE unescaped

RECURSIVE parse_tokens(_, _)
RECURSIVE parse_array_loop(_, _, _)
RECURSIVE parse_object_loop(_, _, _)

\* parse_array: one turn of the loop, entered with index at the
\* LeftBracket or Comma that the turn consumes
parse_array_loop(tokens, index, array) ==
    IF index + 1 >= Len(tokens) THEN IndexPanic
    ELSE IF tokens[index + 2].t = "RightBracket"
         THEN ParseOk(Value_Array(array), index + 2)
    ELSE LET value == parse_tokens(tokens, index + 1)
         IN  IF value.kind # "Ok" THEN value
             ELSE IF value.index >= Len(tokens) THEN IndexPanic
             ELSE CASE tokens[value.index + 1].t = "Comma" ->
                           parse_array_loop(tokens, value.index, Append(array, value.value))
                    [] tokens[value.index + 1].t = "RightBracket" ->
                           ParseOk(Value_Array(Append(array, value.value)), value.index + 1)
                    [] OTHER -> TokenParseErr("ExpectedComma")

parse_array(tokens, index) == parse_array_loop(tokens, index, <<>>)

\* parse_object: one turn of the loop, entered with index at the
\* LeftBrace or Comma that the turn consumes
parse_object_loop(tokens, index, hash_map) ==
    IF index + 1 >= Len(tokens) THEN IndexPanic
    ELSE IF tokens[index + 2].t = "RightBrace"
         THEN ParseOk(Value_Object(hash_map), index + 2)
    ELSE IF tokens[index + 2].t # "String" THEN TokenParseErr("ExpectedProperty")
    ELSE IF index + 2 >= Len(tokens) THEN IndexPanic
    ELSE IF tokens[index + 3].t # "Colon" THEN TokenParseErr("ExpectedColon")
    ELSE LET key == unescape_string(tokens[index + 2].v)
         IN  IF key.kind # "Ok" THEN key
             ELSE LET value == parse_tokens(tokens, index + 3)
                  IN  IF value.kind # "Ok" THEN value
                      ELSE IF value.index >= Len(tokens) THEN IndexPanic
                      ELSE CASE tokens[value.index + 1].t = "Comma" ->
                                    parse_object_loop(tokens, value.index,
                                                      HashMap_insert(hash_map, key.string, value.value))
                             [] tokens[value.index + 1].t = "RightBrace" ->
                                    ParseOk(Value_Object(HashMap_insert(hash_map, key.string,
                                                                        value.value)),
                                            value.index + 1)
                             [] OTHER -> TokenParseErr("ExpectedComma")

parse_object(tokens, index) == parse_object_loop(tokens, index, HashMap_new)

parse_tokens(tokens, index) ==
    IF index >= Len(tokens) THEN IndexPanic
    ELSE LET token == tokens[index + 1]
         IN  CASE token.t = "Null" -> ParseOk(Value_Null, index + 1)
               [] token.t = "False" -> ParseOk(Value_Boolean(FALSE), index + 1)
               [] token.t = "True" -> ParseOk(Value_Boolean(TRUE), index + 1)
               [] token.t = "Number" -> ParseOk(Value_Number(token.v), index + 1)
               [] token.t = "String" -> parse_string(token.v, index + 1)
               [] token.t = "LeftBracket" -> parse_array(tokens, index)
               [] token.t = "LeftBrace" -> parse_object(tokens, index)
               [] OTHER -> TokenParseErr("ExpectedValue")

\* lib.rs parse: an error of either stage is wrapped in its ParseError variant
lib_parse(inp) ==
    LET tokens == tokenize(inp)
    IN  IF tokens.kind = "Panic" THEN tokens
        ELSE IF tokens.kind = "Err"
             THEN [kind |-> "Err", err |-> <<"TokenizeError", tokens.err>>]
        ELSE LET value == parse_tokens(tokens.tokens, 0)
             IN  CASE value.kind = "Ok" -> [kind |-> "Ok", value |-> value.value]
                   [] value.kind = "Err" ->
                          [kind |-> "Err", err |-> <<"ParseError", value.err>>]
                   [] OTHER -> value

(***************************************************************************)
(* The inputs of the token-vector parser: every text of up to MaxTokens    *)
(* lexemes, every prefix of a few well-formed documents (which ends inside *)
(* a literal, a string, an array or an object), and arrays and objects     *)
(* with a comma before the closing bracket.                                *)
(***************************************************************************)
MaxTokens == 3

Lexemes ==
    {<<"[">>, <<"]">>, <<"{">>, <<"}">>, <<",">>, <<":">>, <<" ">>, <<"1">>,
     <<"n", "u", "l", "l">>, <<"t", "r", "u", "e">>, <<"\"", "k", "\"">>}

RECURSIVE Flatten(_)
Flatten(lexemes) ==
    IF lexemes = <<>> THEN <<>> ELSE Head(lexemes) \o Flatten(Tail(lexemes))

LexemeTexts == {Flatten(ls) : ls \in UNION {[1..n -> Lexemes] : n \in 0..MaxTokens}}

\* well-formed documents, lexeme by lexeme
Documents ==
    {<<<<"[">>, <<"n", "u", "l", "l">>, <<"]">>>>,
     <<<<"[">>, <<"t", "r", "u", "e">>, <<",">>, <<"1">>, <<"]">>>>,
     <<<<"[">>, <<"[">>, <<"-", "1", ".", "5">>, <<"]">>, <<"]">>>>,
     <<<<"[">>, <<"{">>, <<"\"", "k", "\"">>, <<":">>, <<"1">>, <<"}">>, <<"]">>>>,
     <<<<"{">>, <<"}">>>>,
     <<<<"{">>, <<"\"", "k", "e", "y", "\"">>, <<":">>,
       <<"\"", "v", "a", "l", "u", "e", "\"">>, <<"}">>>>,
     <<<<"{">>, <<"\"", "k", "\"">>, <<":">>, <<"[">>, <<"f", "a", "l", "s", "e">>,
       <<"]">>, <<"}">>>>,
     <<<<"{">>, <<"\"", "k", "\"">>, <<":">>, <<"1">>, <<",">>, <<"\"", "k", "\"">>,
       <<":">>, <<"n", "u", "l", "l">>, <<"}">>>>,
     <<<<"{">>, <<"\"", "k", "\"">>, <<":">>, <<"{">>, <<"}">>, <<"}">>>>}

DocumentTexts == {Flatten(d) : d \in Documents}

\* a document cut after any of its characters
CutTexts == UNION {{SubSeq(t, 1, k) : k \in 0..Len(t)} : t \in DocumentTexts}

ArrayTrailingCommaTexts ==
    {<<"[", "t", "r", "u", "e", ",", "]">>,
     <<"[", "1", ",", " ", "2", ",", "]">>,
     <<"[", "[", "1", ",", "]", "]">>}

ObjectTrailingCommaTexts == {<<"{", "\"", "k", "\"", ":", "1", ",", "}">>}

\* string contents of up to MaxEscapes units, a unit being a character that
\* needs no escape or a backslash with one of the eight simple escapes
MaxEscapes == 3

EscapeUnits ==
    {<<"a">>, <<"/">>} \cup {<<"\\", c>> : c \in {"\"", "\\", "/", "b", "f", "n", "r", "t"}}

SimpleEscapeTexts ==
    {Flatten(us) : us \in UNION {[1..n -> EscapeUnits] : n \in 0..MaxEscapes}}

\* other escapes: unicode escapes, an escaped letter, a backslash at the end
OtherEscapeTexts ==
    {<<"\\", "u", "0", "0", "4", "1">>, <<"\\", "u", "0", "0", "e", "9", "a">>,
     <<"\\", "u", "D", "8", "3", "C">>, <<"\\", "u", "0", "0", "4">>,
     <<"\\", "u", "0", "G", "4", "1">>, <<"\\", "q">>, <<"a", "\\">>}

\* an opening quote and up to MaxStringLen characters, quotes and
\* backslashes among them
MaxStringLen == 5

StringTexts ==
    {<<"\"">> \o cs : cs \in UNION {[1..n -> {"\\", "\"", "a"}] : n \in 0..MaxStringLen}}

\* texts in which a token begins as null, true or false and is not spelt
\* out: the input ends inside the literal, or another character follows
CutLiteralTexts ==
    {<<"n">>, <<"n", "u", "l">>, <<"[", "t", "r", "u">>, <<"f", "a", "l", "s">>,
     <<"[", "1", ",", " ", "t">>}

MisspeltLiteralTexts ==
    {<<"n", "u", "l", "x">>, <<"n", "u", "l", "]">>, <<"t", "r", "]", "e">>,
     <<"[", "f", "a", "l", "s", "]">>, <<"n", "i", "l", "l">>, <<"t", " ", "r", "u", "e">>}

TokenTexts ==
    LexemeTexts \cup CutTexts \cup ArrayTrailingCommaTexts \cup ObjectTrailingCommaTexts
    \cup SimpleEscapeTexts \cup OtherEscapeTexts \cup StringTexts
    \cup CutLiteralTexts \cup MisspeltLiteralTexts

(***************************************************************************)
(* The calls of the token-vector parser.  parser records the function      *)
(* called, result what it returned; parse_tokens is called, as lib.rs      *)
(* calls it, on a vector that tokenize returned and with index 0.          *)
(***************************************************************************)
TokenInit ==
    /\ input \in TokenTexts
    /\ memo = <<>>
    /\ parser = NoParser
    /\ result = NoResult

Returned(op, r) ==
    /\ Idle
    /\ parser' = [op |-> op]
    /\ result' = r
    /\ UNCHANGED <<input, memo>>

Call_tokenize == Returned("tokenize", tokenize(input))

Call_unescape_string == Returned("unescape_string", unescape_string(input))

Call_parse_tokens ==
    /\ tokenize(input).kind = "Ok"
    /\ Returned("parse_tokens", parse_tokens(tokenize(input).tokens, 0))

Call_lib_parse == Returned("lib_parse", lib_parse(input))

\* tokenize_string, called as make_token calls it: at an opening quote
Call_tokenize_string ==
    /\ input # <<>>
    /\ Head(input) = "\""
    /\ Returned("tokenize_string", tokenize_string(input, 0))

TokenNext ==
    \/ Call_tokenize
    \/ Call_unescape_string
    \/ Call_parse_tokens
    \/ Call_lib_parse
    \/ Call_tokenize_string

TokenSpec == TokenInit /\ [][TokenNext]_vars

(***************************************************************************)
(* Properties of the token-vector parser.                                  *)
(***************************************************************************)
\* the brackets and braces that a sequence of lexemes leaves open,
\* outermost first
RECURSIVE OpenStack(_, _)
OpenStack(lexemes, stack) ==
    IF lexemes = <<>> THEN stack
    ELSE LET l == Head(lexemes)
         IN  OpenStack(Tail(lexemes),
                       CASE l = <<"[">> \/ l = <<"{">> -> Append(stack, l[1])
                         [] l = <<"]">> \/ l = <<"}">> -> SubSeq(stack, 1, Len(stack) - 1)
                         [] OTHER -> stack)

\* the documents cut after a lexeme, with the construct open at the cut
OpenCuts(documents, bracket) ==
    UNION {{Flatten(SubSeq(d, 1, k)) :
                k \in {j \in 1..(Len(d) - 1) :
                           LET stack == OpenStack(SubSeq(d, 1, j), <<>>)
                           IN  stack # <<>> /\ stack[Len(stack)] = bracket}} :
           d \in documents}

OpenTexts(bracket) == OpenCuts(Documents, bracket)

\* C18: lib.rs parse answers Err(UnclosedBracket) when the input ends inside
\* an array and Err(UnclosedBrace) when it ends inside an object, and
\* parse_tokens never indexes the token vector past its end (no panic).
C18_UnclosedReportedWithoutPanic ==
    /\ (parser.op = "lib_parse" /\ input \in OpenTexts("["))
           => (result.kind = "Err" /\ result.err = <<"ParseError", "UnclosedBracket">>)
    /\ (parser.op = "lib_parse" /\ input \in OpenTexts("{"))
           => (result.kind = "Err" /\ result.err = <<"ParseError", "UnclosedBrace">>)
    /\ parser.op = "parse_tokens" => result.kind # "Panic"

\* C19: parse_tokens answers Err(TrailingComma) for the tokens of an array
\* in which a Comma stands directly before the closing RightBracket.
C19_ArrayTrailingCommaRejected ==
    (parser.op = "parse_tokens" /\ input \in ArrayTrailingCommaTexts)
        => (result.kind = "Err" /\ result.err = "TrailingComma")

(***************************************************************************)
(* The iterator parser: iterator_parser/lexer.rs and iterator_parser/      *)
(* mod.rs, with location.rs.                                               *)
(*                                                                         *)
(* A Lexer is the record of its fields: char_iter holds the characters the *)
(* iterator has still to give, curr and next are Option<char> with NoChar  *)
(* for None.  A method that takes &mut self gives back the Lexer it leaves *)
(* in the field lexer of its result.                                       *)
(***************************************************************************)
NoChar == ""

Location_new == [row |-> 0, col |-> 0]

move_right(location) == [location EXCEPT !.col = @ + 1]

move_down(location) == [row |-> location.row + 1, col |-> 0]

\* Iterator::next of the Chars: the character given, and the iterator left
chars_next(char_iter) ==
    IF char_iter = <<>> THEN [item |-> NoChar, iter |-> <<>>]
    ELSE [item |-> Head(char_iter), iter |-> Tail(char_iter)]

ItLexer_new(chars) ==
    [char_iter |-> chars_next(chars).iter,
     location |-> Location_new,
     curr |-> NoChar,
     next |-> chars_next(chars).item]

\* Lexer::advance; the Option<char> it returns is the curr of the result
ItLexer_advance(lexer) ==
    [char_iter |-> chars_next(lexer.char_iter).iter,
     location |-> IF lexer.curr = "\n" THEN move_down(move_right(lexer.location))
                  ELSE move_right(lexer.location),
     curr |-> lexer.next,
     next |-> chars_next(lexer.char_iter).item]

TokenKind(t, v) == [t |-> t, v |-> v]

LexOk(lexer, v) == [lexer |-> lexer, kind |-> "Ok", v |-> v]

LexErr(lexer, err) == [lexer |-> lexer, kind |-> "Err", err |-> err]

\* Lexer::lex_string: the loop, entered after the advance past the quote
RECURSIVE lex_string_loop(_, _)
lex_string_loop(lexer, str) ==
    IF lexer.curr = NoChar THEN LexErr(lexer, "UnclosedQuotes")
    ELSE IF lexer.curr = "\"" THEN LexOk(lexer, str)
    ELSE lex_string_loop(ItLexer_advance(lexer), Append(str, lexer.curr))

ItLexer_lex_string(lexer) == lex_string_loop(ItLexer_advance(lexer), <<>>)

\* Lexer::lex_literal: the for loop over the characters of expected after
\* the first
RECURSIVE ItLexer_lex_literal(_, _, _, _)
ItLexer_lex_literal(lexer, expected, ok_kind, error_kind) ==
    IF Len(expected) <= 1 THEN LexOk(lexer, ok_kind)
    ELSE IF lexer.next = NoChar \/ lexer.next # expected[2]
         THEN LexErr(lexer, error_kind)
    ELSE ItLexer_lex_literal(ItLexer_advance(lexer), Tail(expected), ok_kind, error_kind)

\* Lexer::lex_uint: the loop that collects the digits, then parse::<u64>
RECURSIVE lex_uint_loop(_, _)
lex_uint_loop(lexer, value_str) ==
    IF lexer.next # NoChar /\ is_ascii_digit(lexer.next)
    THEN lex_uint_loop(ItLexer_advance(lexer), Append(value_str, lexer.next))
    ELSE IF parse_u64(value_str).ok
         THEN LexOk(lexer, parse_u64(value_str).v)
         ELSE LexErr(lexer, "ParseNumberError")

ItLexer_lex_uint(lexer) == lex_uint_loop(lexer, <<lexer.curr>>)

\* the Token or LexError that next makes of what the match on ch gave,
\* with the location the Lexer is left at
located(lexed) ==
    IF lexed.kind = "Ok"
    THEN [lexer |-> lexed.lexer, kind |-> "Ok",
          token |-> [kind |-> lexed.v, location |-> lexed.lexer.location]]
    ELSE [lexer |-> lexed.lexer, kind |-> "Err",
          err |-> [kind |-> lexed.err, location |-> lexed.lexer.location]]

\* the TokenKind of a lexed string or number
of_kind(t, lexed) ==
    IF lexed.kind = "Ok" THEN LexOk(lexed.lexer, TokenKind(t, lexed.v)) ELSE lexed

\* the match on ch of next
match_ch(lexer, ch) ==
    CASE ch = "[" -> LexOk(lexer, TokenKind("LeftBracket", Unit))
      [] ch = "]" -> LexOk(lexer, TokenKind("RightBracket", Unit))
      [] ch = "{" -> LexOk(lexer, TokenKind("LeftBrace", Unit))
      [] ch = "}" -> LexOk(lexer, TokenKind("RightBrace", Unit))
      [] ch = "," -> LexOk(lexer, TokenKind("Comma", Unit))
      [] ch = ":" -> LexOk(lexer, TokenKind("Colon", Unit))
      [] ch = "\"" ->
           CHOOSE v \in {of_kind("String", r) : r \in {ItLexer_lex_string(lexer)}} : TRUE
      [] ch = "n" ->
           ItLexer_lex_literal(lexer, <<"n", "u", "l", "l">>,
                               TokenKind("Null", Unit), "UnfinishedNullValue")
      [] ch = "t" ->
           ItLexer_lex_literal(lexer, <<"t", "r", "u", "e">>,
                               TokenKind("Bool", TRUE), "UnfinishedBoolValue(true)")
      [] ch = "f" ->
           ItLexer_lex_literal(lexer, <<"f", "a", "l", "s", "e">>,
                               TokenKind("Bool", FALSE), "UnfinishedBoolValue(false)")
      [] is_ascii_digit(ch) ->
           CHOOSE v \in {of_kind("UInt", r) : r \in {ItLexer_lex_uint(lexer)}} : TRUE
      [] OTHER -> LexErr(lexer, "CharNotRecognized(" \o ch \o ")")

\* Iterator::next of the Lexer, from the character that advance gave:
\* Option<LexResult>, None being the kind "Exhausted".  (A value used more
\* than once is bound once, as the element of a one-element set.)
RECURSIVE ItLexer_next_from(_)
ItLexer_next_from(lexer) ==
    IF lexer.curr = NoChar THEN [lexer |-> lexer, kind |-> "Exhausted"]
    ELSE IF lexer.curr \in {" ", "\t", "\r", "\n"}
         THEN ItLexer_next_from(ItLexer_advance(lexer))
    ELSE CHOOSE v \in {located(lexed) : lexed \in {match_ch(lexer, lexer.curr)}} : TRUE

ItLexer_next(lexer) == ItLexer_next_from(ItLexer_advance(lexer))

(***************************************************************************)
(* iterator_parser/mod.rs.  A method of the Parser gives back, with its    *)
(* ParseResult, the Lexer it leaves.                                       *)
(***************************************************************************)
ItOk(lexer, value) == [lexer |-> lexer, kind |-> "Ok", value |-> value]

\* make_error!, and the Err(ParseError { kind, location }) written in full
make_error(lexer, kind, location) ==
    [lexer |-> lexer, kind |-> "Err", err |-> [kind |-> kind, location |-> location]]

\* Parser::advance: the token is in the field value
advanced(item) ==
    CASE item.kind = "Exhausted" ->
             ItOk(item.lexer, [kind |-> TokenKind("EOF", Unit),
                               location |-> [row |-> 0, col |-> 0]])
      [] item.kind = "Ok" -> ItOk(item.lexer, item.token)
      [] OTHER -> make_error(item.lexer, "LexError(" \o item.err.kind \o ")",
                             item.err.location)

ItParser_advance(lexer) ==
    CHOOSE v \in {advanced(item) : item \in {ItLexer_next(lexer)}} : TRUE

NumberValue_Float(f) == [kind |-> "Float", neg |-> f.neg, mag |-> <<f.int, f.frac>>]

\* the Value of a token that is a value by itself
literal_value(kind) ==
    CASE kind.t = "String" -> Value_String(kind.v)
      [] kind.t = "Int" -> Value_Number(NumberValue_Int(kind.v))
      [] kind.t = "UInt" -> Value_Number(NumberValue_UInt(kind.v))
      [] kind.t = "Float" -> Value_Number(NumberValue_Float(kind.v))
      [] kind.t = "Bool" -> Value_Bool(kind.v)
      [] OTHER -> Value_Null

LiteralKinds == {"String", "Int", "UInt", "Float", "Null", "Bool"}

RECURSIVE ItParser_parse(_)
RECURSIVE ItParser_parse_array_loop(_, _, _)
RECURSIVE ItParser_parse_object_loop(_, _)

\* Parser::parse_array: one turn of the loop
ItParser_parse_array_loop(lexer, array, needs_comma) ==
    LET pushed(r) ==
            IF r.kind # "Ok" THEN r
            ELSE ItParser_parse_array_loop(r.lexer, Append(array, r.value), needs_comma)
        turn(token) ==
            IF token.kind # "Ok" THEN token
            ELSE LET kind == token.value.kind
                     location == token.value.location
                 IN  CASE kind.t \in LiteralKinds ->
                            \* check_comma!
                            IF needs_comma
                            THEN make_error(token.lexer, "NeedsComma", location)
                            ELSE ItParser_parse_array_loop(token.lexer,
                                     Append(array, literal_value(kind)), TRUE)
                       [] kind.t = "LeftBrace" ->
                            CHOOSE v \in {pushed(r) : r \in {ItParser_parse_object_loop(
                                              token.lexer, BTreeMap_new)}} : TRUE
                       [] kind.t = "LeftBracket" ->
                            CHOOSE v \in {pushed(r) : r \in {ItParser_parse_array_loop(
                                              token.lexer, <<>>, FALSE)}} : TRUE
                       [] kind.t = "RightBracket" -> ItOk(token.lexer, Value_Array(array))
                       [] kind.t = "Comma" ->
                            IF needs_comma
                            THEN ItParser_parse_array_loop(token.lexer, array, FALSE)
                            ELSE make_error(token.lexer, "TrailingComma", location)
                       [] kind.t = "EOF" ->
                            make_error(token.lexer, "UnclosedBracket", location)
                       [] OTHER -> make_error(token.lexer, "ExpectedValue", location)
    IN  CHOOSE v \in {turn(token) : token \in {ItParser_advance(lexer)}} : TRUE

ItParser_parse_array(lexer) == ItParser_parse_array_loop(lexer, <<>>, FALSE)

\* Parser::parse_object: one turn of the loop
ItParser_parse_object_loop(lexer, btree_map) ==
    LET after_value(key, token, value, next) ==
            IF next.kind # "Ok" THEN next
            ELSE CASE next.value.kind.t = "Comma" ->
                        ItParser_parse_object_loop(next.lexer,
                            BTreeMap_insert(btree_map, key.value.kind.v, value.value))
                   [] next.value.kind.t = "RightBrace" ->
                        ItOk(next.lexer,
                             Value_Object(BTreeMap_insert(btree_map, key.value.kind.v,
                                                          value.value)))
                   [] next.value.kind.t = "EOF" ->
                        make_error(next.lexer, "UnclosedBrace", token.value.location)
                   [] OTHER ->
                        make_error(next.lexer, "ExpectedComma", token.value.location)
        after_colon(key, token, value) ==
            IF value.kind # "Ok" THEN value
            ELSE CHOOSE v \in {after_value(key, token, value, next) :
                                   next \in {ItParser_advance(value.lexer)}} : TRUE
        after_key(key, token) ==
            IF token.kind # "Ok" THEN token
            ELSE IF token.value.kind.t # "Colon"
                 THEN make_error(token.lexer, "ExpectedColon", token.value.location)
            ELSE CHOOSE v \in {after_colon(key, token, value) :
                                   value \in {ItParser_parse(token.lexer)}} : TRUE
        turn(key) ==
            IF key.kind # "Ok" THEN key
            ELSE CASE key.value.kind.t = "String" ->
                        CHOOSE v \in {after_key(key, token) :
                                          token \in {ItParser_advance(key.lexer)}} : TRUE
                   [] key.value.kind.t = "EOF" ->
                        make_error(key.lexer, "UnclosedBrace", key.value.location)
                   [] OTHER ->
                        make_error(key.lexer, "ExpectedProperty", key.value.location)
    IN  CHOOSE v \in {turn(key) : key \in {ItParser_advance(lexer)}} : TRUE

ItParser_parse_object(lexer) == ItParser_parse_object_loop(lexer, BTreeMap_new)

\* Parser::parse
ItParser_parse(lexer) ==
    LET value_of(token) ==
            IF token.kind # "Ok" THEN token
            ELSE LET kind == token.value.kind
                 IN  CASE kind.t \in LiteralKinds ->
                            ItOk(token.lexer, literal_value(kind))
                       [] kind.t = "LeftBrace" -> ItParser_parse_object(token.lexer)
                       [] kind.t = "LeftBracket" -> ItParser_parse_array(token.lexer)
                       [] kind.t = "EOF" ->
                            make_error(token.lexer, "EarlyEOF", token.value.location)
                       [] OTHER ->
                            make_error(token.lexer, "ExpectedValue", token.value.location)
    IN  CHOOSE v \in {value_of(token) : token \in {ItParser_advance(lexer)}} : TRUE

\* iterator_parser::parse
iterator_parse(inp) == ItParser_parse(ItLexer_new(inp))

(***************************************************************************)
(* The inputs of the iterator parser: every text of up to MaxTokens        *)
(* lexemes, every prefix of a few well-formed documents, and arrays with   *)
(* line breaks and misplaced commas.                                       *)
(***************************************************************************)
ItDocuments ==
    {<<<<"[">>, <<"n", "u", "l", "l">>, <<"]">>>>,
     <<<<"[">>, <<"t", "r", "u", "e">>, <<",">>, <<" ">>, <<"1", "2">>, <<"]">>>>,
     <<<<"[">>, <<"{">>, <<"\"", "k", "\"">>, <<":">>, <<"1">>, <<"}">>, <<"]">>>>,
     <<<<"[">>, <<"[">>, <<"1">>, <<"]">>, <<"]">>>>,
     <<<<"{">>, <<"\"", "k", "e", "y", "\"">>, <<":">>,
       <<"\"", "v", "a", "l", "u", "e", "\"">>, <<"}">>>>,
     <<<<"{">>, <<"\n">>, <<"\"", "k", "\"">>, <<":">>, <<"[">>,
       <<"f", "a", "l", "s", "e">>, <<"]">>, <<"}">>>>,
     <<<<"{">>, <<"\"", "k", "\"">>, <<":">>, <<"1">>, <<",">>, <<"\"", "k", "\"">>,
       <<":">>, <<"n", "u", "l", "l">>, <<"}">>>>}

\* documents with an empty object, or with an element after a nested one
ItNestedDocuments ==
    {<<<<"[">>, <<"[">>, <<"]">>, <<",">>, <<"1">>, <<"]">>>>,
     <<<<"[">>, <<"{">>, <<"\"", "k", "\"">>, <<":">>, <<"n", "u", "l", "l">>, <<"}">>,
       <<",">>, <<"t", "r", "u", "e">>, <<"]">>>>,
     <<<<"{">>, <<"}">>>>,
     <<<<"{">>, <<"\"", "k", "\"">>, <<":">>, <<"{">>, <<"}">>, <<"}">>>>}

ItCutTexts ==
    UNION {{SubSeq(Flatten(d), 1, k) : k \in 0..Len(Flatten(d))} :
           d \in ItDocuments \cup ItNestedDocuments}

\* arrays in which elements and commas do not alternate: two elements
\* without a comma, a comma before the first element, two commas, and a
\* comma before the closing bracket
ItAdjacentElementTexts ==
    {<<"[", "1", " ", "1", "]">>, <<"[", "1", "\n", "1", "]">>,
     <<"[", "n", "u", "l", "l", "\"", "k", "\"", "]">>,
     <<"[", "1", "[", "1", "]", "]">>, <<"[", "[", "]", "1", "]">>,
     <<"[", "[", "]", "[", "]", "]">>, <<"[", "1", "{", "\"", "k", "\"", ":", "1", "}", "]">>}

ItLeadingCommaTexts == {<<"[", ",", "1", "]">>, <<"[", ",", "]">>, <<"[", " ", ",", "[", "]", "]">>}

ItDoubleCommaTexts == {<<"[", "1", ",", ",", "1", "]">>, <<"[", "1", ",", " ", ",", "]">>}

ItTrailingCommaTexts ==
    {<<"[", "1", ",", "]">>, <<"[", "t", "r", "u", "e", ",", "1", ",", " ", "]">>,
     <<"[", "[", "1", ",", "]", "]">>}

\* objects in which a value is not followed by a comma or a brace
ItMissingCommaTexts ==
    {<<"{", "\"", "k", "\"", ":", "1", " ", "\"", "k", "\"", ":", "1", "}">>,
     <<"{", "\"", "k", "\"", ":", "1", "]">>,
     <<"{", "\n", "\"", "k", "\"", ":", "n", "u", "l", "l", "\n", "1", "}">>,
     <<"[", "{", "\"", "k", "\"", ":", "[", "]", ":", "}", "]">>}

ItTexts ==
    LexemeTexts \cup ItCutTexts \cup ItAdjacentElementTexts \cup ItLeadingCommaTexts
    \cup ItDoubleCommaTexts \cup ItTrailingCommaTexts \cup ItMissingCommaTexts
    \cup {<<"[", "1", "\n", ",", ",">>}

(***************************************************************************)
(* The calls of the iterator parser.  memo holds the Lexer.  Either the    *)
(* tokens are drawn from it one next() at a time, until it answers None,   *)
(* or parse is called on the new Lexer.                                    *)
(***************************************************************************)
ItInit ==
    /\ input \in ItTexts
    /\ memo = ItLexer_new(input)
    /\ parser = NoParser
    /\ result = NoResult

Call_ItLexer_next ==
    /\ parser.op \in {"none", "Lexer_next"}
    /\ result.kind # "Exhausted"
    /\ LET item == ItLexer_next(memo)
       IN  /\ memo' = item.lexer
           /\ result' = [f \in DOMAIN item \ {"lexer"} |-> item[f]]
    /\ parser' = [op |-> "Lexer_next"]
    /\ UNCHANGED input

Call_iterator_parse ==
    /\ parser = NoParser
    /\ LET r == iterator_parse(input)
       IN  /\ memo' = r.lexer
           /\ result' = [f \in DOMAIN r \ {"lexer"} |-> r[f]]
    /\ parser' = [op |-> "iterator_parse"]
    /\ UNCHANGED input

ItNext ==
    \/ Call_ItLexer_next
    \/ Call_iterator_parse

ItSpec == ItInit /\ [][ItNext]_vars

\* the character that JSON defines for a simple escape
JsonEscape(c) ==
    CASE c = "b" -> CharOfCode(8)
      [] c = "f" -> CharOfCode(12)
      [] c = "n" -> CharOfCode(10)
      [] c = "r" -> CharOfCode(13)
      [] c = "t" -> CharOfCode(9)
      [] OTHER -> c

\* a string content with each simple escape replaced, the rest copied
RECURSIVE JsonUnescaped(_)
JsonUnescaped(s) ==
    IF s = <<>> THEN <<>>
    ELSE IF Head(s) = "\\" /\ Len(s) >= 2
         THEN <<JsonEscape(s[2])>> \o JsonUnescaped(DropChars(s, 2))
         ELSE <<Head(s)>> \o JsonUnescaped(Tail(s))

\* C23: unescape_string replaces each simple escape by the character JSON
\* defines for it (\f by form feed, U+000C) and copies every other
\* character unchanged and in order.
C23_SimpleEscapesDecoded ==
    (parser.op = "unescape_string" /\ input \in SimpleEscapeTexts)
        => (result.kind = "Ok" /\ result.string = JsonUnescaped(input))

\* the number of consecutive backslashes of s that end right before
\* position i, the opening quote at position 1 not counted
BackslashRun(s, i) ==
    CHOOSE k \in 0..(i - 2) :
        /\ \A j \in (i - k)..(i - 1) : s[j] = "\\"
        /\ (k = i - 2 \/ s[i - k - 1] # "\\")

\* the positions of the quotes of s after an even number of backslashes
ClosingQuotes(s) == {i \in 2..Len(s) : s[i] = "\"" /\ BackslashRun(s, i) % 2 = 0}

\* C24: tokenize_string ends the token at the first quote that follows an
\* even number of consecutive backslashes, the token holds the raw
\* characters between the quotes, and without such a quote the result is
\* Err(UnclosedQuotes).
C24_StringEndsAtUnescapedQuote ==
    parser.op = "tokenize_string"
        => IF ClosingQuotes(input) = {}
           THEN result.kind = "Err" /\ result.err = "UnclosedQuotes"
           ELSE LET close == CHOOSE i \in ClosingQuotes(input) :
                                 \A j \in ClosingQuotes(input) : i <= j
                IN  /\ result.kind = "Ok"
                    /\ result.token.t = "String"
                    /\ result.token.v = SubSeq(input, 2, close - 1)
                    /\ result.index = close - 1

\* an escaped quote inside the token, and a closing quote after it
C24_Witness ==
    /\ parser.op = "tokenize_string"
    /\ result.kind = "Ok"
    /\ \E i \in 1..Len(result.token.v) : result.token.v[i] = "\""
    /\ \E i \in 2..Len(input) : input[i] = "\\" /\ input[i - 1] = "\\"

\* C25: tokenize answers Err(UnfinishedLiteralValue) when a token begins
\* with n, t or f and does not spell null, true or false, also when the
\* input ends inside the literal; it never reads past the characters.
C25_UnfinishedLiteralReported ==
    /\ (parser.op = "tokenize" /\ input \in CutLiteralTexts \cup MisspeltLiteralTexts)
           => (result.kind = "Err" /\ result.err = "UnfinishedLiteralValue")
    /\ parser.op = "tokenize" => result.kind # "Panic"

\* runs of spaces, tabs and newlines
OuterWhitespace == {<<" ">>, <<"\t">>, <<"\n">>, <<" ", "\n">>}

\* C26: for a document that lib.rs parse accepts, whitespace before or
\* after the whole document does not change what tokenize returns.
C26_OuterWhitespaceIgnored ==
    (parser.op = "tokenize" /\ lib_parse(input).kind = "Ok")
        => \A ws \in OuterWhitespace :
               /\ tokenize(ws \o input).kind = "Ok"
               /\ tokenize(ws \o input).tokens = result.tokens
               /\ tokenize(input \o ws).kind = "Ok"
               /\ tokenize(input \o ws).tokens = result.tokens

(***************************************************************************)
(* Properties of the iterator parser.                                      *)
(***************************************************************************)
\* C20: iterator_parser::parse answers UnclosedBracket when the input ends
\* inside an array, and UnclosedBrace when it ends inside an object, be it
\* after the brace, a key, a colon, a value or a comma.
C20_IteratorUnclosedKinds ==
    /\ (parser.op = "iterator_parse" /\ input \in OpenCuts(ItDocuments, "["))
           => (result.kind = "Err" /\ result.err.kind = "UnclosedBracket")
    /\ (parser.op = "iterator_parse" /\ input \in OpenCuts(ItDocuments, "{"))
           => (result.kind = "Err" /\ result.err.kind = "UnclosedBrace")

\* C21: the iterator parser rejects an array in which elements and commas
\* do not strictly alternate: two adjacent elements, a comma before the
\* first element, two adjacent commas, a comma directly before the bracket.
C21_ArrayCommasAlternate ==
    (parser.op = "iterator_parse"
     /\ input \in ItAdjacentElementTexts \cup ItLeadingCommaTexts
                  \cup ItDoubleCommaTexts \cup ItTrailingCommaTexts)
        => result.kind = "Err"

\* C22: a ParseError of the iterator parser carries the location of the
\* token at which parsing stopped, which is the location the Lexer is left
\* at; when the input ended, the location is where it ended and not the
\* fixed row 0, col 0.
C22_ErrorLocationIsStoppingToken ==
    (parser.op = "iterator_parse" /\ result.kind = "Err")
        => IF memo.curr = NoChar
           THEN input # <<>> => result.err.location # Location_new
           ELSE result.err.location = memo.location

\* the well-formed arrays among the documents
ItArrayTexts == {Flatten(d) : d \in {e \in ItDocuments \cup ItNestedDocuments : e[1] = <<"[">>}}

\* C28: the iterator parser accepts every well-formed array, also when an
\* element follows a nested array or object: [[],1] and [{"k":null},true]
\* parse to arrays of their two elements in source order.
C28_ElementAfterNestedAccepted ==
    /\ (parser.op = "iterator_parse" /\ input \in ItArrayTexts) => result.kind = "Ok"
    /\ (parser.op = "iterator_parse" /\ input = <<"[", "[", "]", ",", "1", "]">>)
           => (result.kind = "Ok"
               /\ result.value = Value_Array(<<Value_Array(<<>>),
                                               Value_Number(NumberValue_UInt(<<"1">>))>>))

(***************************************************************************)
(* Properties of the combinator engine, continued.                         *)
(***************************************************************************)
\* C27: when a parser of the combinator engine fails, the slice it returns
\* is a suffix of the input it was given, and no output comes with it.
C27_ErrorIsSuffixWithoutOutput ==
    result.kind = "Err" => (IsSuffix(result.rest, input) /\ result.out = Unit)

\* C27 witness: a parser failed after a part of the input had been read,
\* and the error is the rest
C27_Witness ==
    /\ result.kind = "Err"
    /\ Len(result.rest) \in 1..(Len(input) - 1)

(***************************************************************************)
(* lexer.rs: the Lexer over an iterator of characters.  A Lexer is the     *)
(* record of its fields; a method gives back the Lexer it leaves with its  *)
(* Result.                                                                 *)
(***************************************************************************)
Lexer_new(char_iter) ==
    [iter |-> chars_next(char_iter).iter,
     location |-> Location_new,
     curr |-> NoChar,
     next |-> chars_next(char_iter).item]

\* Lexer::advance; the Option<char> it returns is the curr of the result
Lexer_advance(lexer) ==
    [iter |-> chars_next(lexer.iter).iter,
     location |-> IF lexer.curr = "\n" THEN move_down(move_right(lexer.location))
                  ELSE move_right(lexer.location),
     curr |-> lexer.next,
     next |-> chars_next(lexer.iter).item]

\* Lexer::lex_string: the loop, entered after the advance past the quote
RECURSIVE Lexer_lex_string_loop(_, _)
Lexer_lex_string_loop(lexer, str) ==
    IF lexer.curr = NoChar THEN LexErr(lexer, "UnclosedQuotes")
    ELSE IF lexer.curr = "\"" THEN LexOk(lexer, str)
    ELSE Lexer_lex_string_loop(Lexer_advance(lexer), Append(str, lexer.curr))

Lexer_lex_string(lexer) == Lexer_lex_string_loop(Lexer_advance(lexer), <<>>)

\* Lexer::lex_null: the for loop over null_iter, the characters of "null"
\* yet to come; curr is compared with each, and advance follows each match
RECURSIVE Lexer_lex_null_loop(_, _)
Lexer_lex_null_loop(lexer, null_iter) ==
    IF null_iter = <<>> THEN LexOk(lexer, TokenKind("Null", Unit))
    ELSE IF lexer.curr = NoChar \/ lexer.curr # Head(null_iter)
         THEN LexErr(lexer, "UnfinishedNullValue")
    ELSE Lexer_lex_null_loop(Lexer_advance(lexer), Tail(null_iter))

Lexer_lex_null(lexer) == Lexer_lex_null_loop(lexer, <<"n", "u", "l", "l">>)

\* Lexer::lex_number: the loop that collects the digits, then parse::<i64>
RECURSIVE Lexer_lex_number_loop(_, _)
Lexer_lex_number_loop(lexer, value_str) ==
    IF lexer.next # NoChar /\ is_ascii_digit(lexer.next)
    THEN Lexer_lex_number_loop(Lexer_advance(lexer), Append(value_str, lexer.next))
    ELSE IF parse_i64(value_str).ok
         THEN LexOk(lexer, parse_i64(value_str).v)
         ELSE LexErr(lexer, "ParseNumberError")

Lexer_lex_number(lexer) == Lexer_lex_number_loop(lexer, <<lexer.curr>>)

\* the match on ch of next
Lexer_match_ch(lexer, ch) ==
    CASE ch = "[" -> LexOk(lexer, TokenKind("LeftBracket", Unit))
      [] ch = "]" -> LexOk(lexer, TokenKind("RightBracket", Unit))
      [] ch = "{" -> LexOk(lexer, TokenKind("LeftCurly", Unit))
      [] ch = "}" -> LexOk(lexer, TokenKind("RightCurly", Unit))
      [] ch = "," -> LexOk(lexer, TokenKind("Comma", Unit))
      [] ch = ":" -> LexOk(lexer, TokenKind("Colon", Unit))
      [] ch = "\"" ->
           CHOOSE v \in {of_kind("Str", r) : r \in {Lexer_lex_string(lexer)}} : TRUE
      [] ch = "n" -> Lexer_lex_null(lexer)
      [] is_ascii_digit(ch) ->
           CHOOSE v \in {of_kind("Number", r) : r \in {Lexer_lex_number(lexer)}} : TRUE
      [] OTHER -> LexErr(lexer, "CharNotRecognized(" \o ch \o ")")

\* Iterator::next of the Lexer, from the character that advance gave:
\* None is the kind "Exhausted"
RECURSIVE Lexer_next_from(_)
Lexer_next_from(lexer) ==
    IF lexer.curr = NoChar THEN [lexer |-> lexer, kind |-> "Exhausted"]
    ELSE IF lexer.curr \in {" ", "\t", "\r", "\n"}
         THEN Lexer_next_from(Lexer_advance(lexer))
    ELSE CHOOSE v \in {located(lexed) : lexed \in {Lexer_match_ch(lexer, lexer.curr)}} : TRUE

Lexer_next(lexer) == Lexer_next_from(Lexer_advance(lexer))

\* the number of characters of chars that the Lexer has moved past or
\* holds in curr
consumed(chars, lexer) ==
    Len(chars) - Len(lexer.iter) - (IF lexer.next = NoChar THEN 0 ELSE 1)

(***************************************************************************)
(* The inputs of the Lexer: the texts of up to MaxTokens lexemes.          *)
(***************************************************************************)
LexerLexemes ==
    {<<"[">>, <<"]">>, <<"{">>, <<"}">>, <<",">>, <<":">>, <<" ">>, <<"\n">>,
     <<"1">>, <<"0", "7">>, <<"n", "u", "l", "l">>, <<"n", "u">>,
     <<"\"", "k", "\"">>, <<"\"">>, <<"t">>}

LexerTexts ==
    {Flatten(d) : d \in UNION {[1..n -> LexerLexemes] : n \in 0..MaxTokens}}

(***************************************************************************)
(* The calls of the Lexer.  memo holds the Lexer; the tokens are drawn     *)
(* from it one next() at a time, until it answers None.  parser.from is    *)
(* the number of characters consumed before the call.                      *)
(***************************************************************************)
LexerInit ==
    /\ input \in LexerTexts
    /\ memo = Lexer_new(input)
    /\ parser = NoParser
    /\ result = NoResult

Call_Lexer_next ==
    /\ result.kind # "Exhausted"
    /\ LET item == Lexer_next(memo)
       IN  /\ memo' = item.lexer
           /\ result' = [f \in DOMAIN item \ {"lexer"} |-> item[f]]
    /\ parser' = [op |-> "Lexer_next", from |-> consumed(input, memo)]
    /\ UNCHANGED input

LexerNext == Call_Lexer_next

LexerSpec == LexerInit /\ [][LexerNext]_vars

(***************************************************************************)
(* Properties of the Lexer over an iterator of characters.                 *)
(***************************************************************************)
RECURSIVE skip_whitespace(_)
skip_whitespace(chars) ==
    IF chars # <<>> /\ Head(chars) \in {" ", "\t", "\r", "\n"}
    THEN skip_whitespace(Tail(chars)) ELSE chars

\* chars is the text of a token of this kind
IsLexemeOf(chars, kind) ==
    CASE kind.t = "LeftBracket" -> chars = <<"[">>
      [] kind.t = "RightBracket" -> chars = <<"]">>
      [] kind.t = "LeftCurly" -> chars = <<"{">>
      [] kind.t = "RightCurly" -> chars = <<"}">>
      [] kind.t = "Comma" -> chars = <<",">>
      [] kind.t = "Colon" -> chars = <<":">>
      [] kind.t = "Null" -> chars = <<"n", "u", "l", "l">>
      [] kind.t = "Str" -> chars = <<"\"">> \o kind.v \o <<"\"">>
      [] kind.t = "Number" -> parse_i64(chars).ok /\ parse_i64(chars).v = kind.v
      [] OTHER -> FALSE

\* the characters the last call of next consumed
ConsumedByCall == SubSeq(input, parser.from + 1, consumed(input, memo))

\* C29: each call of next() of the Lexer of lexer.rs consumes the
\* whitespace before the token it returns and the characters of that token,
\* and nothing else; a call that answers None consumed only whitespace.
\* So the character after a null literal is left for the next call.
C29_NextConsumesItsToken ==
    /\ (parser.op = "Lexer_next" /\ result.kind = "Ok")
           => IsLexemeOf(skip_whitespace(ConsumedByCall), result.token.kind)
    /\ (parser.op = "Lexer_next" /\ result.kind = "Exhausted")
           => skip_whitespace(ConsumedByCall) = <<>>
(***************************************************************************)
(* cursor.rs: the Cursor over an iterator of characters, as the record of  *)
(* its fields.  (The dbg! of new writes to stderr and changes nothing.)    *)
(***************************************************************************)
Cursor_new(iter) ==
    [iter |-> chars_next(chars_next(iter).iter).iter,
     curr |-> chars_next(iter).item,
     next |-> chars_next(chars_next(iter).iter).item,
     line |-> 0,
     col |-> 0]

\* Cursor::curr and Cursor::peek take &self: they read a field
Cursor_curr(cursor) == cursor.curr

Cursor_peek(cursor) == cursor.next

\* an advance that takes next into curr and draws nothing from the iterator
Cursor_advance_no_refill(cursor) ==
    [iter |-> cursor.iter,
     curr |-> cursor.next,
     next |-> NoChar,
     line |-> IF cursor.curr = "\n" THEN cursor.line + 1 ELSE cursor.line,
     col |-> IF cursor.curr = "\n" THEN 0 ELSE cursor.col + 0]

\* Cursor::advance
Cursor_advance(cursor) ==
    [iter |-> chars_next(cursor.iter).iter,
     curr |-> cursor.next,
     next |-> chars_next(cursor.iter).item,
     line |-> IF cursor.curr = "\n" THEN cursor.line + 1 ELSE cursor.line,
     col |-> IF cursor.curr = "\n" THEN 0 ELSE cursor.col + 0]

(***************************************************************************)
(* The calls of the Cursor.  input is the character sequence, memo the     *)
(* Cursor made of it by new, result the Option<&char> of the last call.    *)
(* parser holds the last method called, the Cursor before that call and    *)
(* the number of advances so far; advance is called up to PastEnd times    *)
(* beyond the end of the sequence.                                         *)
(***************************************************************************)
PastEnd == 2

CursorChars == {"a", "b", "\n"}

CursorTexts == UNION {[1..n -> CursorChars] : n \in 0..MaxLen}

CursorInit ==
    /\ input \in CursorTexts
    /\ memo = Cursor_new(input)
    /\ parser = [op |-> "new", before |-> Cursor_new(input), k |-> 0]
    /\ result = NoResult

Call_Cursor_curr ==
    /\ result' = [kind |-> "Option", v |-> Cursor_curr(memo)]
    /\ parser' = [op |-> "curr", before |-> memo, k |-> parser.k]
    /\ UNCHANGED <<input, memo>>

Call_Cursor_peek ==
    /\ result' = [kind |-> "Option", v |-> Cursor_peek(memo)]
    /\ parser' = [op |-> "peek", before |-> memo, k |-> parser.k]
    /\ UNCHANGED <<input, memo>>

Call_Cursor_advance ==
    /\ parser.k < Len(input) + PastEnd
    /\ memo' = Cursor_advance(memo)
    /\ result' = [kind |-> "Unit", v |-> NoChar]
    /\ parser' = [op |-> "advance", before |-> memo, k |-> parser.k + 1]
    /\ UNCHANGED input

CursorNext ==
    \/ Call_Cursor_curr
    \/ Call_Cursor_peek
    \/ Call_Cursor_advance

CursorSpec == CursorInit /\ [][CursorNext]_vars

(***************************************************************************)
(* Properties of the Cursor.                                               *)
(***************************************************************************)
\* the k-th character of chars, counted from 0, or None
NthChar(chars, k) == IF k < Len(chars) THEN chars[k + 1] ELSE NoChar

\* C30: curr() and peek() leave the Cursor as it was; after an advance()
\* curr() is what peek() gave just before it and peek() is the character
\* that follows in the sequence, None past its end; after k advances
\* curr() is the k-th character of the sequence, counted from 0, or None.
C30_CursorWalksSequence ==
    /\ parser.op \in {"curr", "peek"} => memo = parser.before
    /\ parser.op = "curr" => result.v = NthChar(input, parser.k)
    /\ parser.op = "peek" => result.v = NthChar(input, parser.k + 1)
    /\ parser.op = "advance"
           => /\ Cursor_curr(memo) = Cursor_peek(parser.before)
              /\ Cursor_peek(memo) = NthChar(input, parser.k + 1)
    /\ Cursor_curr(memo) = NthChar(input, parser.k)

\* C30 witness: after the second advance over three characters curr() is
\* the third and peek() is None, and curr() was then called
C30_Witness ==
    /\ Len(input) = 3
    /\ parser.op = "curr"
    /\ parser.k = 2
    /\ result.v = input[3]
    /\ Cursor_peek(memo) = NoChar

====
